---- MODULE Spec2Model ----
(***************************************************************************)
(* Domain layer of the issue tracker: users, activation tokens, projects   *)
(* and issues kept in one store (PostgreSQL), and the controller/service   *)
(* operations that read and write them.  Every store call is one atomic    *)
(* step; an operation that makes several store calls is several steps of   *)
(* the request that runs it, so requests interleave between store calls.   *)
(***************************************************************************)
EXTENDS Integers, Sequences, FiniteSets, TLC

\* ------------------------------------------------------------------ bounds
NumProcs == 2
MaxUsers == 2
MaxProjects == 1
MaxIssues == 1
MaxTokens == 2
MaxVersion == 3
MaxTime == 3

\* ------------------------------------------------------- program constants
\* 3*24*time.Hour, in days
ActivationTTL == 3
\* make([]byte, 16)
TokenBytes == 16
\* len(tokenPlaintext) == 26
TokenPlaintextLen == 26
\* version integer NOT NULL DEFAULT 1
InitialVersion == 1
MinUserNameLen == 3
MinProjectNameLen == 5
MinDescriptionLen == 5
MinTitleLen == 5

Procs == 1..NumProcs
UserIds == 1..MaxUsers
ProjectIds == 1..MaxProjects
IssueIds == 1..MaxIssues

\* A nil *int64 / nil *time.Time, and the zero time.Time.
Nil == 0
\* A nil *string of a request payload: the field was not supplied.
NoStr == "<nil>"

ScopeActivation == "activation"
ScopeAuthentication == "authentication"

VARIABLES
    users,          \* table users: id -> row
    nextUserId,     \* bigserial of users.id
    projects,       \* table projects: id -> row
    nextProjectId,  \* bigserial of projects.id
    issues,         \* table issues: id -> row
    nextIssueId,    \* bigserial of issues.id
    members,        \* table projects_users: set of <<project_id, user_id>>
    tokens,         \* table tokens: set of rows
    nextToken,      \* the random bytes the next generated token draws
    now,            \* the clock, in days
    req,            \* per request context: position, local variables, outcome
    mu,             \* rateLimit: the holder of the mutex, Nil when it is free
    clients,        \* rateLimit: the client map, ip -> limiter and last seen
    sweep,          \* rateLimit: the sweeping goroutine: position, ips it deleted
    roles,          \* Handler.roles: role -> action -> list of resources
    ErrFailedValidation, \* the package-level error value of that name
    wg              \* Controller.wg: the counter of the sync.WaitGroup

vars == <<users, nextUserId, projects, nextProjectId, issues, nextIssueId,
          members, tokens, nextToken, now, req, mu, clients, sweep, roles, ErrFailedValidation, wg>>
limiterVars == <<mu, clients, sweep>>
userVars == <<users, nextUserId>>
projectVars == <<projects, nextProjectId>>
issueVars == <<issues, nextIssueId>>
tokenVars == <<tokens, nextToken>>
storeVars == <<users, nextUserId, projects, nextProjectId, issues, nextIssueId,
               members, tokens, nextToken>>

\* ------------------------------------------------------------ validator
NoErrors == [k \in {} |-> ""]

\* Validator.AddError: the first message of a key is kept.
AddError(errs, key, msg) ==
    IF key \in DOMAIN errs THEN errs ELSE errs @@ (key :> msg)

\* Check were it to record its message whatever the condition.
CheckAlways(errs, ok, key, msg) == AddError(errs, key, msg)

\* Validator.Check
Check(errs, ok, key, msg) ==
    IF ok THEN errs ELSE AddError(errs, key, msg)

\* Validator.Valid
Valid(errs) == DOMAIN errs = {}

\* validator.Matches(email, validator.EmailRX) on the addresses the model uses.
WellFormedEmails == {"a@x.io", "b@x.io", "c@x.io", "d@x.io"}
EmailMatches(email) == email \in WellFormedEmails

\* ------------------------------------------------------------- outcomes
Res(kind) == [kind |-> kind, errors |-> NoErrors, message |-> <<>>]
Pending == Res("")
Ok == Res("ok")
ErrNotFound == Res("NotFound")
ErrEditConflict == Res("EditConflict")
ErrInvalidRole == Res("InvalidRole")
ErrNotPermitted == Res("NotPermitted")
ErrActivated == Res("AlreadyActivated")
\* A store failure no case of the switch names: returned as it is.
ErrUnclassified == Res("error")
\* A run-time panic of the handler's goroutine (nil pointer dereference).
Panic == Res("panic")

\* The keys the validators use, in the order of sort.Strings (byte order).
KeysInOrder ==
    <<"a", "actual end date", "actual resolution date", "b", "description",
      "email", "iitle", "name", "page", "page_size", "password", "progress",
      "resolution summary", "sort", "start date", "target end date",
      "target resolution date", "title", "token", "user">>

\* sort.Strings(keys)
SortStrings(keys) == SelectSeq(KeysInOrder, LAMBDA k : k \in keys)

\* failedValidationErr(v.Errors): nil for an empty map, else the error whose
\* text is "key: message" for every key in sorted order; `message` is that
\* text as the sequence of its <<key, message>> parts.
failedValidationErr(errs) ==
    IF DOMAIN errs = {} THEN Ok
    ELSE LET keys == SortStrings(DOMAIN errs)
         IN [kind |-> "FailedValidation", errors |-> errs,
             message |-> [i \in 1..Len(keys) |-> <<keys[i], errs[keys[i]]>>]]

\* ------------------------------------------------------ request contexts
Idle == [pc |-> "idle", op |-> "", actor |-> Nil, role |-> "", id |-> Nil,
         in |-> <<>>, cand |-> <<>>, fetched |-> <<>>, wrote |-> FALSE,
         query |-> <<>>, mail |-> "", attempts |-> 0, sent |-> FALSE,
         logged |-> FALSE, started |-> FALSE,
         result |-> Pending]

Step(op, pc, actor, role, id, in, cand, fetched) ==
    [pc |-> pc, op |-> op, actor |-> actor, role |-> role, id |-> id,
     in |-> in, cand |-> cand, fetched |-> fetched, wrote |-> FALSE,
     query |-> <<>>, mail |-> "", attempts |-> 0, sent |-> FALSE,
     logged |-> FALSE, started |-> FALSE,
     result |-> Pending]

\* The request has issued the UPDATE statement of its entity.
Written(r) == [r EXCEPT !.wrote = TRUE]

\* The operation were it to call SendEmail before it returns `res`.
DoneScheduling(r, res) ==
    [r EXCEPT !.pc = "done", !.result = res, !.mail = "project_assign.tmpl",
              !.cand = <<>>]

\* The operation returns `res` to its handler.
Done(r, res) == [r EXCEPT !.pc = "done", !.result = res, !.cand = <<>>]

\* The operation schedules a notification (SendEmail) and returns `res`.
DoneMail(r, res, template) ==
    [r EXCEPT !.pc = "done", !.result = res, !.mail = template, !.cand = <<>>]

Finished(p) == req[p].pc = "done"

\* The handler writes its response and the request context ends.
Return(p) ==
    /\ req[p].pc = "done"
    /\ req' = [req EXCEPT ![p] = Idle]
    /\ UNCHANGED storeVars
    /\ UNCHANGED <<now, limiterVars, roles, ErrFailedValidation, wg>>

\* time.Now() advances, `limit` capping the clock.
TickUpTo(limit) ==
    /\ now < limit
    /\ now' = now + 1
    /\ UNCHANGED storeVars
    /\ UNCHANGED <<req, limiterVars, roles, ErrFailedValidation, wg>>

Tick == TickUpTo(MaxTime)

\* rateLimit has been called: the mutex is free, the map is empty, the
\* sweeping goroutine sleeps.
LimiterAtStart ==
    /\ mu = Nil
    /\ clients = <<>>
    /\ sweep = [pc |-> "sleep", removed |-> {}]

\* The actions ActionFromMethod names, and the resources of the routes.
ActionNames == {"read", "create", "update", "delete"}
ResourceNames == <<"projects", "users", "issues">>

\* A table that lets every role do everything: the requests of the domain
\* operations below have all passed the permission check.
AllowAll ==
    [r \in {"manager", "lead", "member"} |-> [a \in ActionNames |-> ResourceNames]]

\* An error value: the object it is (0 for the one made at start, else the
\* request that made it) and its text.
ErrorValue(id, text) == [id |-> id, text |-> text]
\* ErrFailedValidation = errors.New("failed validation")
ErrorsAtStart == ErrFailedValidation = ErrorValue(0, <<>>)

\* var wg sync.WaitGroup: the zero value, no task counted.
TrackerAtStart == wg = 0

\* rbac.LoadRoles has decoded the table and New has stored it in the handler.
RolesAtStart == roles = AllowAll

\* ================================================================= users
\* CreateUser/CreateActivationToken requests that still have to insert a token.
TokenWriters == {q \in Procs : req[q].pc \in {"cu_token", "cat_token"}}

\* ValidateEmail
ValidateEmail(errs, email) ==
    Check(Check(errs, email # "", "email", "must be provided"),
          EmailMatches(email), "email", "must be a valid email address")

\* ValidatePasswordPlaintext
ValidatePasswordPlaintext(errs, password) ==
    Check(Check(Check(errs, password # "", "password", "must be provided"),
                Len(password) >= 8, "password", "must be at least 8 bytes long"),
          Len(password) <= 72, "password", "must not be more than 72 bytes long")

\* User.Validate; `plaintext` is NoStr when Password.Plaintext is nil.
UserValidate(u, plaintext) ==
    LET e1 == Check(NoErrors, u.name # "", "name", "must be provided")
        e2 == Check(e1, Len(u.name) >= MinUserNameLen, "name",
                    "must not be less than 3 bytes long")
        e3 == Check(e2, Len(u.name) <= 500, "name",
                    "must not be more than 500 bytes long")
        e4 == ValidateEmail(e3, u.email)
    IN IF plaintext # NoStr THEN ValidatePasswordPlaintext(e4, plaintext) ELSE e4

\* users_email_key: another row already holds the address.
EmailTaken(email, except) ==
    \E o \in DOMAIN users \ {except} : users[o].email = email

\* The WHERE clause of Repository.UpdateUser with the version test left out.
UserRowMatchesNoVersion(id, version) == id \in DOMAIN users

\* The WHERE clause of Repository.UpdateUser were a missing row a match.
UserRowMatchesMissing(id, version) ==
    id \in DOMAIN users => users[id].version = version

\* The WHERE clause of Repository.UpdateUser: id = $6 AND version = $7.
UserRowMatches(id, version) ==
    id \in DOMAIN users /\ users[id].version = version

\* The SET clause of Repository.UpdateUser.
UserRowWritten(c) ==
    [name |-> c.name, email |-> c.email, role |-> c.role,
     activated |-> c.activated, version |-> c.version + 1]

\* Repository.UpdateUser, its outcome: "ok", "EditConflict" or "DuplicateKey".
RepoUpdateUserKind(id, c) ==
    IF ~UserRowMatches(id, c.version) THEN "EditConflict"
    ELSE IF EmailTaken(c.email, id) THEN "DuplicateKey"
    ELSE "ok"

\* Repository.UpdateUser, the table afterwards.
RepoUpdateUserRows(id, c) ==
    IF RepoUpdateUserKind(id, c) = "ok"
    THEN [users EXCEPT ![id] = UserRowWritten(c)]
    ELSE users

\* Controller.CreateUser up to its INSERT (Repository.CreateUser).
CreateUser(p, name, email, password, role) ==
    /\ req[p].pc = "idle"
    /\ nextUserId <= MaxUsers
    /\ nextToken + Cardinality(TokenWriters) <= MaxTokens
    /\ LET u == [name |-> name, email |-> email, role |-> role,
                 activated |-> FALSE, version |-> InitialVersion]
           v == UserValidate(u, password)
           r == Step("CreateUser", "cu_token", Nil, "", nextUserId, <<>>, u, <<>>)
       IN IF ~Valid(v)
          THEN /\ req' = [req EXCEPT ![p] = Done(r, failedValidationErr(v))]
               /\ UNCHANGED userVars
          ELSE IF EmailTaken(email, Nil)
          THEN /\ req' = [req EXCEPT ![p] = Done(r, failedValidationErr(
                              AddError(v, "email", "a user with this email already exists")))]
               /\ UNCHANGED userVars
          ELSE /\ users' = users @@ (nextUserId :> u)
               /\ nextUserId' = nextUserId + 1
               /\ req' = [req EXCEPT ![p] = r]
    /\ UNCHANGED <<projectVars, issueVars, members, tokenVars, now, limiterVars, roles, ErrFailedValidation, wg>>

\* base32 without padding of n bytes: ceil(8n / 5) characters.
EncodedLen(n) == (8 * n + 4) \div 5

\* generateToken: the plaintext drawn from the random bytes `rnd`.
TokenPlaintext(rnd) == [rnd |-> rnd, len |-> EncodedLen(TokenBytes)]

\* sha256.Sum256([]byte(plaintext))
Sha256(plaintext) == [sha |-> plaintext]

\* generateToken
generateToken(userID, ttl, scope) ==
    [hash |-> Sha256(TokenPlaintext(nextToken)), userId |-> userID,
     expiry |-> now + ttl, scope |-> scope]

\* Controller.CreateUser, Repository.CreateToken and the welcome email.
CreateUserToken(p) ==
    /\ req[p].pc = "cu_token"
    /\ tokens' = tokens \cup {generateToken(req[p].id, ActivationTTL, ScopeActivation)}
    /\ nextToken' = nextToken + 1
    /\ req' = [req EXCEPT ![p] = DoneMail(req[p], Ok, "user_welcome.tmpl")]
    /\ UNCHANGED <<userVars, projectVars, issueVars, members, now, limiterVars, roles, ErrFailedValidation, wg>>

\* Controller.UpdateUser up to its write: GetUserByID, the deltas, Validate.
UpdateUserFetch(p, id, name, email, role) ==
    /\ req[p].pc = "idle"
    /\ id \in DOMAIN users => users[id].version < MaxVersion
    /\ LET in == [name |-> name, email |-> email, role |-> role]
           r == Step("UpdateUser", "uu_write", Nil, "", id, in, <<>>, <<>>)
       IN IF id \notin DOMAIN users
          THEN req' = [req EXCEPT ![p] = Done(r, ErrNotFound)]
          ELSE LET u == users[id]
                   c == [u EXCEPT !.name = IF name # NoStr THEN name ELSE @,
                                  !.email = IF email # NoStr THEN email ELSE @,
                                  !.role = IF role # NoStr THEN role ELSE @]
                   v == UserValidate(c, NoStr)
                   rr == [r EXCEPT !.cand = c, !.fetched = u.version]
               IN IF ~Valid(v)
                  THEN req' = [req EXCEPT ![p] = Done(rr, failedValidationErr(v))]
                  ELSE req' = [req EXCEPT ![p] = rr]
    /\ UNCHANGED <<storeVars, now, limiterVars, roles, ErrFailedValidation, wg>>

\* Controller.UpdateUser, Repository.UpdateUser and the error translation.
UpdateUserWrite(p) ==
    /\ req[p].pc = "uu_write"
    /\ LET kind == RepoUpdateUserKind(req[p].id, req[p].cand)
       IN /\ users' = RepoUpdateUserRows(req[p].id, req[p].cand)
          /\ req' = [req EXCEPT ![p] = Done(Written(req[p]),
                 CASE kind = "ok" -> Ok
                   [] kind = "EditConflict" -> ErrEditConflict
                   [] OTHER -> failedValidationErr(AddError(NoErrors, "email",
                                   "a user with this email already exists")))]
    /\ UNCHANGED <<nextUserId, projectVars, issueVars, members, tokenVars, now, limiterVars, roles, ErrFailedValidation, wg>>

\* projects.assigned_to REFERENCES users: a referenced row cannot be deleted.
UserReferenced(id) == \E j \in DOMAIN projects : projects[j].assignedTo = id

\* ON DELETE CASCADE of projects_users.user_id.
MembersWithoutUser(id) == {m \in members : m[2] # id}

\* tokens.user_id follows its user (the tokens table's foreign key).
TokensWithoutUser(id) == {t \in tokens : t.userId # id}

\* Controller.DeleteUser and Repository.DeleteUser.
DeleteUser(p, id) ==
    /\ req[p].pc = "idle"
    \* What the delete does to issues that name the user is decided by the
    \* issues table's foreign keys; the operation is modelled for users that
    \* no issue names.
    /\ \A i \in DOMAIN issues : issues[i].reporterId # id /\ issues[i].assignedTo # id
    /\ LET r == Step("DeleteUser", "done", Nil, "", id, <<>>, <<>>, <<>>)
       IN IF id \notin DOMAIN users
          THEN /\ req' = [req EXCEPT ![p] = Done(r, ErrNotFound)]
               /\ UNCHANGED <<users, members, tokens>>
          ELSE IF UserReferenced(id)
          THEN /\ req' = [req EXCEPT ![p] = Done(r, ErrUnclassified)]
               /\ UNCHANGED <<users, members, tokens>>
          ELSE /\ users' = [i \in DOMAIN users \ {id} |-> users[i]]
               /\ members' = MembersWithoutUser(id)
               /\ tokens' = TokensWithoutUser(id)
               /\ req' = [req EXCEPT ![p] = Done(r, Ok)]
    /\ UNCHANGED <<nextUserId, projectVars, issueVars, nextToken, now, limiterVars, roles, ErrFailedValidation, wg>>

\* ========================================================== activation
\* ValidateTokenPlaintext
ValidateTokenPlaintext(errs, plaintext) ==
    Check(Check(errs, plaintext.len # 0, "token", "must be provided"),
          plaintext.len = TokenPlaintextLen, "token", "must be 26 bytes long")

\* The WHERE clause of Repository.GetUserForToken with the expiry test left out.
TokenRowMatchesExpired(t, scope, plaintext) ==
    /\ t.hash = Sha256(plaintext)
    /\ t.scope = scope

\* The WHERE clause of Repository.GetUserForToken:
\*   tokens.hash = $1 AND tokens.scope = $2 AND tokens.expiry > $3
TokenRowMatches(t, scope, plaintext) ==
    /\ t.hash = Sha256(plaintext)
    /\ t.scope = scope
    /\ t.expiry > now

\* Repository.GetUserForToken: the ids of the users the join returns.
RepoGetUserForToken(scope, plaintext) ==
    {t.userId : t \in {t \in tokens : /\ TokenRowMatches(t, scope, plaintext)
                                      /\ t.userId \in DOMAIN users}}

\* The message Controller.GetUserForToken gives a token the store does not return.
InvalidTokenError ==
    failedValidationErr(AddError(NoErrors, "token", "invalid or expired activation token"))

\* Handler.activateUser, Controller.GetUserForToken.
ActivateRedeem(p, plaintext) ==
    /\ req[p].pc = "idle"
    /\ LET v == ValidateTokenPlaintext(NoErrors, plaintext)
           found == RepoGetUserForToken(ScopeActivation, plaintext)
           r == Step("ActivateUser", "au_update", Nil, "", Nil, plaintext, <<>>, <<>>)
       IN IF ~Valid(v)
          THEN req' = [req EXCEPT ![p] = Done(r, failedValidationErr(v))]
          ELSE IF found = {}
          THEN req' = [req EXCEPT ![p] = Done(r, InvalidTokenError)]
          ELSE \E id \in found :
                 /\ users[id].version < MaxVersion
                 /\ req' = [req EXCEPT ![p] = [r EXCEPT !.id = id, !.cand = users[id],
                                                   !.fetched = users[id].version]]
    /\ UNCHANGED <<storeVars, now, limiterVars, roles, ErrFailedValidation, wg>>

\* Controller.ActivateUser up to Repository.UpdateUser.
ActivateUpdate(p) ==
    /\ req[p].pc = "au_update"
    /\ LET c == [req[p].cand EXCEPT !.activated = TRUE]
           kind == RepoUpdateUserKind(req[p].id, c)
       IN /\ users' = RepoUpdateUserRows(req[p].id, c)
          /\ req' = [req EXCEPT ![p] =
                 CASE kind = "ok" -> [Written(req[p]) EXCEPT !.pc = "au_tokens", !.cand = <<>>]
                   [] kind = "EditConflict" -> Done(Written(req[p]), ErrEditConflict)
                   [] OTHER -> Done(Written(req[p]), ErrUnclassified)]
    /\ UNCHANGED <<nextUserId, projectVars, issueVars, members, tokenVars, now, limiterVars, roles, ErrFailedValidation, wg>>

\* Repository.DeleteAllTokensForUser
RepoDeleteAllTokensForUser(scope, userID) ==
    {t \in tokens : ~(t.scope = scope /\ t.userId = userID)}

\* Controller.ActivateUser, Repository.DeleteAllTokensForUser.
ActivateDeleteTokens(p) ==
    /\ req[p].pc = "au_tokens"
    /\ tokens' = RepoDeleteAllTokensForUser(ScopeActivation, req[p].id)
    /\ req' = [req EXCEPT ![p] = Done(req[p], Ok)]
    /\ UNCHANGED <<userVars, projectVars, issueVars, members, nextToken, now, limiterVars, roles, ErrFailedValidation, wg>>

\* A variant of the Activated test that never refuses.
UserActivatedNever(user) == FALSE

\* Controller.CreateActivationToken: if user.Activated { return ErrActivated }
UserActivated(user) == user.activated

\* Handler.createActivationToken: Controller.GetUserByEmail, then the
\* Activated test of Controller.CreateActivationToken.
ActivationTokenLookup(p, email) ==
    /\ req[p].pc = "idle"
    /\ nextToken + Cardinality(TokenWriters) <= MaxTokens
    /\ LET v == ValidateEmail(NoErrors, email)
           found == {id \in DOMAIN users : users[id].email = email}
           r == Step("CreateActivationToken", "cat_token", Nil, "", Nil, email, <<>>, <<>>)
       IN IF ~Valid(v)
          THEN req' = [req EXCEPT ![p] = Done(r, failedValidationErr(v))]
          ELSE IF found = {}
          THEN req' = [req EXCEPT ![p] = Done(r, failedValidationErr(
                          AddError(v, "email", "no matching email address found")))]
          ELSE \E id \in found :
                 IF UserActivated(users[id])
                 THEN req' = [req EXCEPT ![p] = Done([r EXCEPT !.id = id, !.cand = users[id]],
                                                     ErrActivated)]
                 ELSE req' = [req EXCEPT ![p] = [r EXCEPT !.id = id, !.cand = users[id]]]
    /\ UNCHANGED <<storeVars, now, limiterVars, roles, ErrFailedValidation, wg>>

\* Controller.CreateActivationToken: Repository.CreateToken and the email.
ActivationTokenCreate(p) ==
    /\ req[p].pc = "cat_token"
    /\ tokens' = tokens \cup {generateToken(req[p].id, ActivationTTL, ScopeActivation)}
    /\ nextToken' = nextToken + 1
    /\ req' = [req EXCEPT ![p] = DoneMail(req[p], Ok, "token_activation.tmpl")]
    /\ UNCHANGED <<userVars, projectVars, issueVars, members, now, limiterVars, roles, ErrFailedValidation, wg>>

\* Repository.CreateToken called with either declared scope.
CreateToken(p, userID, scope) ==
    /\ req[p].pc = "idle"
    /\ userID \in DOMAIN users
    /\ nextToken + Cardinality(TokenWriters) <= MaxTokens
    /\ tokens' = tokens \cup {generateToken(userID, ActivationTTL, scope)}
    /\ nextToken' = nextToken + 1
    /\ req' = [req EXCEPT ![p] =
                 Done(Step("CreateToken", "done", Nil, "", userID, scope, <<>>, <<>>), Ok)]
    /\ UNCHANGED <<userVars, projectVars, issueVars, members, now, limiterVars, roles, ErrFailedValidation, wg>>

\* ----------------------------------------- users and tokens: specification
UserNameInputs == {"ann", "al"}
EmailInputs == {"a@x.io", "b@x.io", "a.x.io"}
RoleInputs == {"member"}
PasswordInputs == {"pa55word"}
\* Token plaintexts a client may submit: issued ones, guesses, malformed ones.
PlaintextInputs ==
    {TokenPlaintext(n) : n \in 1..MaxTokens}
        \cup {[rnd |-> 0, len |-> 0], [rnd |-> 1, len |-> TokenPlaintextLen - 1]}

InitUsers ==
    /\ users = <<>>
    /\ nextUserId = 1
    /\ projects = <<>>
    /\ nextProjectId = 1
    /\ issues = <<>>
    /\ nextIssueId = 1
    /\ members = {}
    /\ tokens = {}
    /\ nextToken = 1
    /\ now = 0
    /\ req = [p \in Procs |-> Idle]
    /\ LimiterAtStart
    /\ RolesAtStart
    /\ ErrorsAtStart
    /\ TrackerAtStart

NextUsers ==
    \/ \E p \in Procs, n \in UserNameInputs, e \in EmailInputs, r \in RoleInputs,
          pw \in PasswordInputs : CreateUser(p, n, e, pw, r)
    \/ \E p \in Procs : CreateUserToken(p)
    \/ \E p \in Procs, id \in UserIds, n \in {NoStr}, e \in {NoStr},
          r \in {"lead"} : UpdateUserFetch(p, id, n, e, r)
    \/ \E p \in Procs : UpdateUserWrite(p)
    \/ \E p \in Procs, pt \in PlaintextInputs : ActivateRedeem(p, pt)
    \/ \E p \in Procs : ActivateUpdate(p)
    \/ \E p \in Procs : ActivateDeleteTokens(p)
    \/ \E p \in Procs, e \in EmailInputs : ActivationTokenLookup(p, e)
    \/ \E p \in Procs : ActivationTokenCreate(p)
    \/ \E p \in Procs, id \in UserIds : CreateToken(p, id, ScopeAuthentication)
    \/ \E p \in Procs : Return(p)
    \/ Tick

SpecUsers == InitUsers /\ [][NextUsers]_vars

\* ------------------------------------------------------ users: properties
\* The stored tokens that make Repository.GetUserForToken return a user for
\* the plaintext: hash of the plaintext, activation scope, expiry after now.
LiveTokens(plaintext) ==
    {t \in tokens : /\ t.hash = Sha256(plaintext)
                    /\ t.scope = ScopeActivation
                    /\ t.expiry > now
                    /\ t.userId \in DOMAIN users}

\* Request p makes its redemption (GetUserForToken) in this step.
Redeems(p) ==
    /\ req[p].pc = "idle"
    /\ req'[p].pc # "idle"
    /\ req'[p].op = "ActivateUser"

\* C9 as stated: no ActivateUser call succeeds for a user whose stored
\* activated flag is already true.
C9_NoActivationOfActivatedUser ==
    [][\A p \in Procs :
          (req[p].pc = "au_update" /\ req'[p].pc = "au_tokens")
          => ~users[req[p].id].activated
      ]_vars

\* C9 as amended: the activated flag of a user never goes back from true to
\* false and goes from false to true only in a successful ActivateUser, whose
\* write requires the stored version to be the one its redemption fetched: a
\* stale ActivateUser returns EditConflict and changes no user.  (A token
\* redeemed after the flag was set and before the tokens were deleted lets a
\* further ActivateUser succeed; the flag stays true.)
C9_ActivatedFlagSetOnce ==
    [][/\ \A id \in DOMAIN users :
            /\ id \in DOMAIN users'
            /\ users[id].activated => users'[id].activated
            /\ (~users[id].activated /\ users'[id].activated) =>
                  \E p \in Procs : /\ req[p].pc = "au_update"
                                   /\ req'[p].pc = "au_tokens"
                                   /\ req[p].id = id
                                   /\ req[p].fetched = users[id].version
                                   /\ users'[id].version = users[id].version + 1
       /\ \A p \in Procs :
            (req[p].pc = "au_update" /\ req'[p].pc # "au_update"
                /\ req[p].fetched # users[req[p].id].version)
            => /\ req'[p].result = ErrEditConflict
               /\ users' = users
      ]_vars

\* C9 witness: a user is activated and a concurrent ActivateUser of the same
\* user, which had redeemed the token before, has returned EditConflict.
C9_Witness ==
    \E p \in Procs :
        /\ Finished(p)
        /\ req[p].op = "ActivateUser"
        /\ req[p].result = ErrEditConflict
        /\ req[p].id \in DOMAIN users
        /\ users[req[p].id].activated

\* C10 as stated: redemption returns a user only for a live token, and in
\* every other case the outcome is the one FailedValidation keyed "token" with
\* the message "invalid or expired activation token".
C10_EveryOtherCaseSameFailure ==
    [][\A p \in Procs :
          Redeems(p) =>
            /\ req'[p].pc = "au_update" =>
                  \E t \in LiveTokens(req'[p].in) : t.userId = req'[p].id
            /\ LiveTokens(req'[p].in) = {} => req'[p].result = InvalidTokenError
      ]_vars

\* C10 as amended: redemption returns a user only when a stored token has the
\* hash of the submitted plaintext, the activation scope and an expiry
\* strictly later than now; for a plaintext of 26 bytes every other case
\* (unknown token, wrong scope, expired) has the same outcome, FailedValidation
\* keyed "token" with the message "invalid or expired activation token".  (A
\* plaintext that is empty or not 26 bytes long is refused before the lookup
\* with another message under the same key.)
C10_WellFormedRedemption ==
    [][\A p \in Procs :
          Redeems(p) =>
            /\ req'[p].pc = "au_update" =>
                  \E t \in LiveTokens(req'[p].in) : t.userId = req'[p].id
            /\ (req'[p].in.len = TokenPlaintextLen /\ LiveTokens(req'[p].in) = {})
                  => req'[p].result = InvalidTokenError
            /\ req'[p].in.len # TokenPlaintextLen =>
                  /\ req'[p].result.kind = "FailedValidation"
                  /\ DOMAIN req'[p].result.errors = {"token"}
                  /\ req'[p].result # InvalidTokenError
      ]_vars

\* C10 witness: the redemption of an issued activation token after its expiry
\* has returned the invalid-token failure.
C10_Witness ==
    \E p \in Procs, t \in tokens :
        /\ Finished(p)
        /\ req[p].op = "ActivateUser"
        /\ req[p].result = InvalidTokenError
        /\ t.hash = Sha256(req[p].in)
        /\ t.scope = ScopeActivation
        /\ t.expiry <= now

\* C11: CreateActivationToken for a user whose stored activated flag is true
\* returns AlreadyActivated in the step that looks the user up, leaves the
\* tokens as they are and schedules no email; and no finished
\* CreateActivationToken that returned AlreadyActivated has scheduled one.
C11_ActivatedUserGetsNoToken ==
    [][\A p \in Procs :
          (/\ req[p].pc = "idle"
           /\ req'[p].op = "CreateActivationToken"
           /\ req'[p].id \in DOMAIN users
           /\ users[req'[p].id].activated)
          => /\ req'[p].pc = "done"
             /\ req'[p].result = ErrActivated
             /\ req'[p].mail = ""
             /\ tokens' = tokens
             /\ nextToken' = nextToken
      ]_vars

\* C11 witness: a CreateActivationToken for an activated user has returned
\* AlreadyActivated.
C11_Witness ==
    \E p \in Procs :
        /\ Finished(p)
        /\ req[p].op = "CreateActivationToken"
        /\ req[p].result = ErrActivated
        /\ req[p].id \in DOMAIN users
        /\ users[req[p].id].activated
        /\ req[p].mail = ""

\* =============================================================== projects
\* A date string time.Parse("2006-01-02", ...) rejects.
BadDate == -1

\* Project.Validate
ProjectValidate(c) ==
    LET e1 == Check(NoErrors, c.name # "", "name", "must be provided")
        e2 == Check(e1, Len(c.name) >= MinProjectNameLen, "name",
                    "must not be less than 5 bytes long")
        e3 == Check(e2, Len(c.name) <= 500, "name",
                    "must not be more than 500 bytes long")
        e4 == Check(e3, Len(c.description) >= MinDescriptionLen, "description",
                    "must not be less than 5 bytes long")
        e5 == Check(e4, Len(c.description) <= 5000, "description",
                    "must not be more than 5000 bytes long")
        e6 == Check(e5, c.startDate # Nil, "start date", "must be provided")
        e7 == Check(e6, c.targetEndDate # Nil, "target end date", "must be provided")
        e8 == Check(e7, c.startDate < c.targetEndDate, "target end date",
                    "must not be before start date")
    IN IF c.actualEndDate # Nil
       THEN Check(e8, c.startDate < c.actualEndDate, "actual end date",
                  "must not be before start date")
       ELSE e8

\* The projects table without its unique constraint on name.
ProjectNameTakenNever(name, except) == FALSE

\* projects_name_key: another row already holds the name.
ProjectNameTaken(name, except) ==
    \E o \in DOMAIN projects \ {except} : projects[o].name = name

\* projects.assigned_to REFERENCES users: the row written must name a user.
AssigneeRowExists(assignedTo) == assignedTo = Nil \/ assignedTo \in DOMAIN users

\* The test Controller.CreateProject and UpdateProject make of the assignee.
AssigneeIsLead(assignee) == assignee.role = "lead"

\* Controller.CreateProject up to Repository.CreateProject: the dates, the
\* assignee (Repository.GetUserByID) and Validate.
\* `limit` caps the ids the store's sequence hands out.
CreateProjectUpTo(p, limit, name, description, assignedTo, startDate, targetEndDate) ==
    /\ req[p].pc = "idle"
    /\ nextProjectId + Cardinality({q \in Procs : req[q].pc = "cp_insert"}) <= limit
    /\ LET in == [name |-> name, assignedTo |-> assignedTo]
           c == [name |-> name, description |-> description, assignedTo |-> assignedTo,
                 startDate |-> startDate, targetEndDate |-> targetEndDate,
                 actualEndDate |-> Nil, version |-> InitialVersion]
           v == ProjectValidate(c)
           r == Step("CreateProject", "cp_insert", Nil, "", Nil, in, c, <<>>)
       IN req' = [req EXCEPT ![p] =
            IF startDate = BadDate \/ targetEndDate = BadDate THEN Done(r, ErrUnclassified)
            ELSE IF assignedTo # Nil /\ assignedTo \notin DOMAIN users THEN Done(r, ErrNotFound)
            ELSE IF assignedTo # Nil /\ ~AssigneeIsLead(users[assignedTo])
                 THEN Done(r, ErrInvalidRole)
            ELSE IF ~Valid(v) THEN Done(r, failedValidationErr(v))
            ELSE r]
    /\ UNCHANGED <<storeVars, now, limiterVars, roles, ErrFailedValidation, wg>>

CreateProjectBegin(p, name, description, assignedTo, startDate, targetEndDate) ==
    CreateProjectUpTo(p, MaxProjects, name, description, assignedTo, startDate,
                      targetEndDate)

\* Controller.CreateProject: Repository.CreateProject and the notification.
CreateProjectInsert(p) ==
    /\ req[p].pc = "cp_insert"
    /\ LET c == req[p].cand
       IN IF ProjectNameTaken(c.name, Nil)
          THEN /\ req' = [req EXCEPT ![p] = Done(req[p], failedValidationErr(
                     AddError(NoErrors, "name", "a project with this name already exists")))]
               /\ UNCHANGED projectVars
          ELSE IF ~AssigneeRowExists(c.assignedTo)
          THEN /\ req' = [req EXCEPT ![p] = Done(req[p], ErrUnclassified)]
               /\ UNCHANGED projectVars
          ELSE /\ projects' = projects @@ (nextProjectId :> c)
               /\ nextProjectId' = nextProjectId + 1
               /\ req' = [req EXCEPT ![p] =
                     IF c.assignedTo # Nil
                     THEN DoneMail([req[p] EXCEPT !.id = nextProjectId], Ok, "project_assign.tmpl")
                     ELSE Done([req[p] EXCEPT !.id = nextProjectId], Ok)]
    /\ UNCHANGED <<userVars, issueVars, members, tokenVars, now, limiterVars, roles, ErrFailedValidation, wg>>

\* The ownership test of Controller.UpdateProject:
\*   user.Role == "lead" && *project.AssignedTo != user.ID
\* "panic" when the dereferenced AssignedTo is nil.
ProjectOwnership(role, actor, project) ==
    IF role # "lead" THEN "pass"
    ELSE IF project.assignedTo = Nil THEN "panic"
    ELSE IF project.assignedTo # actor THEN "NotPermitted"
    ELSE "pass"

\* The guard of the assignment with the test of the acting role left out.
AssignsAnyRole(assignedTo, role) == assignedTo # Nil

\* The guard of the assignment in Controller.UpdateProject:
\*   assignedTo != nil && user.Role == "manager"
Assigns(assignedTo, role) == assignedTo # Nil /\ role = "manager"

\* The field deltas Controller.UpdateProject applies to the fetched project.
ProjectDeltas(project, in) ==
    [project EXCEPT
        !.name = IF in.name # NoStr THEN in.name ELSE @,
        !.description = IF in.description # NoStr THEN in.description ELSE @,
        !.startDate = IF in.startDate # Nil THEN in.startDate ELSE @,
        !.targetEndDate = IF in.targetEndDate # Nil THEN in.targetEndDate ELSE @,
        !.actualEndDate = IF in.actualEndDate # Nil THEN in.actualEndDate ELSE @]

\* Controller.UpdateProject up to the assignment: Repository.GetProject, the
\* ownership test, the deltas; Validate when no assignee is to be fetched.
UpdateProjectFetch(p, id, in, actor) ==
    /\ req[p].pc = "idle"
    /\ actor \in DOMAIN users
    /\ id \in DOMAIN projects => projects[id].version < MaxVersion
    /\ LET role == users[actor].role
           r == Step("UpdateProject", "up_write", actor, role, id, in, <<>>, <<>>)
       IN req' = [req EXCEPT ![p] =
            IF id \notin DOMAIN projects THEN Done(r, ErrNotFound)
            ELSE LET project == projects[id]
                     own == ProjectOwnership(role, actor, project)
                     c == ProjectDeltas(project, in)
                     v == ProjectValidate(c)
                     rr == [r EXCEPT !.cand = c, !.fetched = project.version]
                 IN IF own = "panic" THEN Done(rr, Panic)
                    ELSE IF own = "NotPermitted" THEN Done(rr, ErrNotPermitted)
                    ELSE IF BadDate \in {in.startDate, in.targetEndDate, in.actualEndDate}
                         THEN Done(rr, ErrUnclassified)
                    ELSE IF Assigns(in.assignedTo, role) THEN [rr EXCEPT !.pc = "up_assignee"]
                    ELSE IF ~Valid(v) THEN Done(rr, failedValidationErr(v))
                    ELSE rr]
    /\ UNCHANGED <<storeVars, now, limiterVars, roles, ErrFailedValidation, wg>>

\* Controller.UpdateProject: Repository.GetUserByID of the assignee, the role
\* test, the assignment, Validate.
UpdateProjectAssignee(p) ==
    /\ req[p].pc = "up_assignee"
    /\ LET a == req[p].in.assignedTo
           c == [req[p].cand EXCEPT !.assignedTo = a]
           v == ProjectValidate(c)
       IN req' = [req EXCEPT ![p] =
            IF a \notin DOMAIN users THEN Done(req[p], ErrNotFound)
            ELSE IF ~AssigneeIsLead(users[a]) THEN Done(req[p], ErrInvalidRole)
            ELSE IF ~Valid(v) THEN Done([req[p] EXCEPT !.cand = c], failedValidationErr(v))
            ELSE [req[p] EXCEPT !.cand = c, !.pc = "up_write"]]
    /\ UNCHANGED <<storeVars, now, limiterVars, roles, ErrFailedValidation, wg>>

\* The WHERE clause of Repository.UpdateProject: id = $8 AND version = $9.
ProjectRowMatches(id, version) ==
    id \in DOMAIN projects /\ projects[id].version = version

\* The SET clause of Repository.UpdateProject without version = version + 1.
ProjectRowWrittenSameVersion(c) == c

\* The SET clause of Repository.UpdateProject.
ProjectRowWritten(c) == [c EXCEPT !.version = @ + 1]

\* Repository.UpdateProject, its outcome.
RepoUpdateProjectKind(id, c) ==
    IF ~ProjectRowMatches(id, c.version) THEN "EditConflict"
    ELSE IF ProjectNameTaken(c.name, id) THEN "DuplicateKey"
    ELSE IF ~AssigneeRowExists(c.assignedTo) THEN "ForeignKey"
    ELSE "ok"

\* Controller.UpdateProject: Repository.UpdateProject, the error translation
\* and the notification.
UpdateProjectWrite(p) ==
    /\ req[p].pc = "up_write"
    /\ LET c == req[p].cand
           kind == RepoUpdateProjectKind(req[p].id, c)
       IN /\ projects' = IF kind = "ok"
                         THEN [projects EXCEPT ![req[p].id] = ProjectRowWritten(c)]
                         ELSE projects
          /\ req' = [req EXCEPT ![p] =
                 CASE kind = "ok" ->
                        IF Assigns(req[p].in.assignedTo, req[p].role)
                        THEN DoneMail(Written(req[p]), Ok, "project_assign.tmpl")
                        ELSE Done(Written(req[p]), Ok)
                   [] kind = "EditConflict" -> Done(Written(req[p]), ErrEditConflict)
                   [] OTHER -> Done(Written(req[p]), ErrUnclassified)]
    /\ UNCHANGED <<userVars, nextProjectId, issueVars, members, tokenVars, now, limiterVars, roles, ErrFailedValidation, wg>>

\* ON DELETE CASCADE of projects_users.project_id.
MembersWithoutProject(id) == {m \in members : m[1] # id}

\* Controller.DeleteProject and Repository.DeleteProject.
DeleteProject(p, id) ==
    /\ req[p].pc = "idle"
    \* The effect on issues of the project is decided by the issues table's
    \* foreign keys; the operation is modelled for projects without issues.
    /\ \A i \in DOMAIN issues : issues[i].projectId # id
    /\ LET r == Step("DeleteProject", "done", Nil, "", id, <<>>, <<>>, <<>>)
       IN IF id \notin DOMAIN projects
          THEN /\ req' = [req EXCEPT ![p] = Done(r, ErrNotFound)]
               /\ UNCHANGED <<projects, members>>
          ELSE /\ projects' = [i \in DOMAIN projects \ {id} |-> projects[i]]
               /\ members' = MembersWithoutProject(id)
               /\ req' = [req EXCEPT ![p] = Done(r, Ok)]
    /\ UNCHANGED <<userVars, nextProjectId, issueVars, tokenVars, now, limiterVars, roles, ErrFailedValidation, wg>>

\* ------------------------------------------------ projects: specification
\* The users the project and issue specifications start from: registered and
\* activated accounts, one per role the operations distinguish.
SeedUser(name, email, role) ==
    [name |-> name, email |-> email, role |-> role, activated |-> TRUE,
     version |-> InitialVersion]
SeedUsers ==
    (1 :> SeedUser("mia", "a@x.io", "manager"))
        @@ (2 :> SeedUser("lee", "b@x.io", "lead"))
        @@ (3 :> SeedUser("mel", "c@x.io", "member"))
SeedUserIds == DOMAIN SeedUsers

ProjectInput(name, assignedTo) ==
    [name |-> name, assignedTo |-> assignedTo, description |-> NoStr,
     startDate |-> Nil, targetEndDate |-> Nil, actualEndDate |-> Nil]
ProjectNameInputs == {"alpha", "abcd"}
\* No assignee, the lead, the member, and an id no user has.
AssigneeInputs == {Nil, 2, 3, 4}

InitProjects ==
    /\ users = SeedUsers
    /\ nextUserId = 4
    /\ projects = <<>>
    /\ nextProjectId = 1
    /\ issues = <<>>
    /\ nextIssueId = 1
    /\ members = {}
    /\ tokens = {}
    /\ nextToken = 1
    /\ now = 0
    /\ req = [p \in Procs |-> Idle]
    /\ LimiterAtStart
    /\ RolesAtStart
    /\ ErrorsAtStart
    /\ TrackerAtStart

NextProjects ==
    \/ \E p \in Procs, n \in ProjectNameInputs, a \in AssigneeInputs :
          CreateProjectBegin(p, n, "a project", a, 1, 2)
    \/ \E p \in Procs : CreateProjectInsert(p)
    \/ \E p \in Procs, id \in ProjectIds, n \in {NoStr, "bravo", "abcd"},
          a \in AssigneeInputs, actor \in SeedUserIds :
          UpdateProjectFetch(p, id, ProjectInput(n, a), actor)
    \/ \E p \in Procs : UpdateProjectAssignee(p)
    \/ \E p \in Procs : UpdateProjectWrite(p)
    \/ \E p \in Procs, id \in ProjectIds : DeleteProject(p, id)
    \/ \E p \in Procs : UpdateUserFetch(p, 2, NoStr, NoStr, "member")
    \/ \E p \in Procs : UpdateUserWrite(p)
    \/ \E p \in Procs : DeleteUser(p, 2)
    \/ \E p \in Procs : Return(p)

SpecProjects == InitProjects /\ [][NextProjects]_vars

\* ================================================================ issues
\* Issue.Validate
IssueValidate(c) ==
    LET e1 == Check(NoErrors, c.title # "", "title", "must be provided")
        e2 == Check(e1, Len(c.title) >= MinTitleLen, "title",
                    "must not be less than 5 bytes")
        e3 == Check(e2, Len(c.title) <= 500, "iitle",
                    "must not be more than 500 bytes")
        e4 == Check(e3, Len(c.description) >= MinDescriptionLen, "description",
                    "must not be less than 5 bytes long")
        e5 == Check(e4, Len(c.description) <= 5000, "description",
                    "must not be more than 5000 bytes long")
        e6 == Check(e5, c.targetResolutionDate # Nil, "target resolution date",
                    "must be provided")
        e7 == Check(e6, c.targetResolutionDate > c.reportedDate,
                    "target resolution date", "must not be before reported date")
        e8 == IF c.progress # ""
              THEN Check(Check(e7, Len(c.progress) >= 5, "progress",
                               "must not be less than 5 bytes long"),
                         Len(c.progress) <= 1000, "progress",
                         "must not be more than 1000 bytes long")
              ELSE e7
        e9 == IF c.resolutionSummary # ""
              THEN Check(Check(e8, Len(c.resolutionSummary) >= 5, "resolution summary",
                               "must not be less than 5 bytes long"),
                         Len(c.resolutionSummary) <= 1000, "resolution summary",
                         "must not be more than 1000 bytes long")
              ELSE e8
    IN IF c.actualResolutionDate # Nil
       THEN Check(e9, c.actualResolutionDate > c.reportedDate,
                  "actual resolution date", "must not be before reported date")
       ELSE e9

\* Repository.GetProjectUser: the user row joined through projects_users to
\* the project; FALSE when the query returns no row.
ProjectUserFound(projectID, userID) ==
    /\ userID \in DOMAIN users
    /\ projectID \in DOMAIN projects
    /\ <<projectID, userID>> \in members

\* The assignee taken whatever its role.
AssigneeOfAnyRole(assignee) == TRUE

\* The test Service.CreateIssue and UpdateIssue make of the assignee.
AssigneeIsMember(assignee) == assignee.role = "member"

\* The status Service.CreateIssue gives a new issue.
CreatedStatus == "open"

\* Service.CreateIssue up to Repository.CreateIssue: the default priority, the
\* target date, the assignee (Repository.GetProjectUser) and Validate.
CreateIssueBegin(p, title, reporterID, projectID, assignedTo, priority, targetResolutionDate) ==
    /\ req[p].pc = "idle"
    /\ nextIssueId + Cardinality({q \in Procs : req[q].pc = "ci_insert"}) <= MaxIssues
    \* The reporter is the authenticated user.  What the insert does with a
    \* project_id no project has is decided by the issues table's foreign
    \* keys; the operation is modelled for existing projects.
    /\ reporterID \in DOMAIN users
    /\ projectID \in DOMAIN projects
    /\ LET in == [title |-> title, projectId |-> projectID, assignedTo |-> assignedTo]
           c == [title |-> title, description |-> "an issue", reporterId |-> reporterID,
                 reportedDate |-> Nil, projectId |-> projectID, assignedTo |-> assignedTo,
                 status |-> CreatedStatus,
                 priority |-> IF priority = "" THEN "low" ELSE priority,
                 targetResolutionDate |-> targetResolutionDate, progress |-> "",
                 actualResolutionDate |-> Nil, resolutionSummary |-> "",
                 version |-> InitialVersion]
           v == IssueValidate(c)
           r == Step("CreateIssue", "ci_insert", reporterID, users[reporterID].role, Nil,
                     in, c, <<>>)
       IN req' = [req EXCEPT ![p] =
            IF targetResolutionDate = BadDate THEN Done(r, ErrUnclassified)
            ELSE IF assignedTo # Nil /\ ~ProjectUserFound(projectID, assignedTo)
                 THEN Done(r, ErrNotFound)
            ELSE IF assignedTo # Nil /\ ~AssigneeIsMember(users[assignedTo])
                 THEN Done(r, ErrInvalidRole)
            ELSE IF ~Valid(v) THEN Done(r, failedValidationErr(v))
            ELSE r]
    /\ UNCHANGED <<storeVars, now, limiterVars, roles, ErrFailedValidation, wg>>

\* Service.CreateIssue: Repository.CreateIssue and the notification.  The
\* row's reported_date is the store's clock at the insert.
CreateIssueInsert(p) ==
    /\ req[p].pc = "ci_insert"
    /\ LET c == [req[p].cand EXCEPT !.reportedDate = now]
       IN /\ issues' = issues @@ (nextIssueId :> c)
          /\ nextIssueId' = nextIssueId + 1
          /\ req' = [req EXCEPT ![p] =
                IF c.assignedTo # Nil
                THEN DoneMail([req[p] EXCEPT !.id = nextIssueId], Ok, "issue_assign.tmpl")
                ELSE Done([req[p] EXCEPT !.id = nextIssueId], Ok)]
    /\ UNCHANGED <<userVars, projectVars, members, tokenVars, now, limiterVars, roles, ErrFailedValidation, wg>>

\* The ownership test of Service.UpdateIssue:
\*   user.Role == "member" && *issue.AssignedTo != user.ID
\*                         && issue.ReporterID != user.ID
\* "panic" when the dereferenced AssignedTo is nil.
IssueOwnership(role, actor, issue) ==
    IF role # "member" THEN "pass"
    ELSE IF issue.assignedTo = Nil THEN "panic"
    ELSE IF issue.assignedTo # actor /\ issue.reporterId # actor THEN "NotPermitted"
    ELSE "pass"

\* The deltas Service.UpdateIssue applies before it fetches the assignee.
IssueEarlyDeltas(issue, in) ==
    [issue EXCEPT
        !.title = IF in.title # NoStr THEN in.title ELSE @,
        !.description = IF in.description # NoStr THEN in.description ELSE @]

\* The status of the written issue were the supplied status ignored.
StatusDeltaDateOnly(status, in) ==
    IF in.actualResolutionDate # Nil THEN "closed" ELSE status

\* The status Service.UpdateIssue leaves in the issue it writes: the supplied
\* status, overwritten by "closed" when an actual resolution date is supplied.
StatusDelta(status, in) ==
    IF in.actualResolutionDate # Nil THEN "closed"
    ELSE IF in.status # NoStr THEN in.status
    ELSE status

\* The deltas Service.UpdateIssue applies after the assignee.
IssueLateDeltas(issue, in) ==
    [issue EXCEPT
        !.status = StatusDelta(@, in),
        !.priority = IF in.priority # NoStr THEN in.priority ELSE @,
        !.targetResolutionDate =
            IF in.targetResolutionDate # Nil THEN in.targetResolutionDate ELSE @,
        !.progress = IF in.progress # NoStr THEN in.progress ELSE @,
        !.actualResolutionDate =
            IF in.actualResolutionDate # Nil THEN in.actualResolutionDate ELSE @,
        !.resolutionSummary =
            IF in.resolutionSummary # NoStr THEN in.resolutionSummary ELSE @]

\* Service.UpdateIssue after the assignee without the call of Validate.
UpdateIssueReadyUnvalidated(r, c) ==
    IF BadDate \in {r.in.targetResolutionDate, r.in.actualResolutionDate}
    THEN Done(r, ErrUnclassified)
    ELSE [r EXCEPT !.cand = IssueLateDeltas(c, r.in), !.pc = "ui_write"]

\* Service.UpdateIssue after the assignee: the late deltas (time.Parse of the
\* two dates) and Validate.
UpdateIssueReady(r, c) ==
    LET in == r.in
        cc == IssueLateDeltas(c, in)
        v == IssueValidate(cc)
    IN IF BadDate \in {in.targetResolutionDate, in.actualResolutionDate}
       THEN Done(r, ErrUnclassified)
       ELSE IF ~Valid(v) THEN Done(r, failedValidationErr(v))
       ELSE [r EXCEPT !.cand = cc, !.pc = "ui_write"]

\* Service.UpdateIssue up to the assignee: Repository.GetIssue, the ownership
\* test, the early deltas; the rest of the deltas when no assignee is named.
UpdateIssueFetch(p, id, in, actor) ==
    /\ req[p].pc = "idle"
    /\ actor \in DOMAIN users
    /\ id \in DOMAIN issues => issues[id].version < MaxVersion
    /\ LET role == users[actor].role
           r == Step("UpdateIssue", "ui_assignee", actor, role, id, in, <<>>, <<>>)
       IN req' = [req EXCEPT ![p] =
            IF id \notin DOMAIN issues THEN Done(r, ErrNotFound)
            ELSE LET issue == issues[id]
                     own == IssueOwnership(role, actor, issue)
                     c == IssueEarlyDeltas(issue, in)
                     rr == [r EXCEPT !.cand = c, !.fetched = issue.version]
                 IN IF own = "panic" THEN Done(rr, Panic)
                    ELSE IF own = "NotPermitted" THEN Done(rr, ErrNotPermitted)
                    ELSE IF in.assignedTo # Nil THEN rr
                    ELSE UpdateIssueReady(rr, c)]
    /\ UNCHANGED <<storeVars, now, limiterVars, roles, ErrFailedValidation, wg>>

\* Service.UpdateIssue: Repository.GetProjectUser of the assignee, the role
\* test, the assignment, then the rest of the deltas.
UpdateIssueAssignee(p) ==
    /\ req[p].pc = "ui_assignee"
    /\ LET a == req[p].in.assignedTo
           c == [req[p].cand EXCEPT !.assignedTo = a]
       IN req' = [req EXCEPT ![p] =
            IF ~ProjectUserFound(req[p].cand.projectId, a) THEN Done(req[p], ErrNotFound)
            ELSE IF ~AssigneeIsMember(users[a]) THEN Done(req[p], ErrInvalidRole)
            ELSE UpdateIssueReady(req[p], c)]
    /\ UNCHANGED <<storeVars, now, limiterVars, roles, ErrFailedValidation, wg>>

\* The WHERE clause of Repository.UpdateIssue with the version test left out.
IssueRowMatchesNoVersion(id, version) == id \in DOMAIN issues

\* The WHERE clause of Repository.UpdateIssue: id = $11 AND version = $12.
IssueRowMatches(id, version) ==
    id \in DOMAIN issues /\ issues[id].version = version

\* The SET clause of Repository.UpdateIssue.
IssueRowWritten(c) == [c EXCEPT !.version = @ + 1]

\* Service.UpdateIssue: Repository.UpdateIssue, the error translation and the
\* notification.
UpdateIssueWrite(p) ==
    /\ req[p].pc = "ui_write"
    /\ LET c == req[p].cand
       IN IF IssueRowMatches(req[p].id, c.version)
          THEN /\ issues' = [issues EXCEPT ![req[p].id] = IssueRowWritten(c)]
               /\ req' = [req EXCEPT ![p] =
                     IF req[p].in.assignedTo # Nil
                     THEN DoneMail(Written(req[p]), Ok, "issue_assign.tmpl")
                     ELSE Done(Written(req[p]), Ok)]
          ELSE /\ issues' = issues
               /\ req' = [req EXCEPT ![p] = Done(Written(req[p]), ErrEditConflict)]
    /\ UNCHANGED <<userVars, projectVars, nextIssueId, members, tokenVars, now, limiterVars, roles, ErrFailedValidation, wg>>

\* Service.DeleteIssue and Repository.DeleteIssue.
DeleteIssue(p, id) ==
    /\ req[p].pc = "idle"
    /\ LET r == Step("DeleteIssue", "done", Nil, "", id, <<>>, <<>>, <<>>)
       IN IF id \notin DOMAIN issues
          THEN /\ req' = [req EXCEPT ![p] = Done(r, ErrNotFound)]
               /\ issues' = issues
          ELSE /\ issues' = [i \in DOMAIN issues \ {id} |-> issues[i]]
               /\ req' = [req EXCEPT ![p] = Done(r, Ok)]
    /\ UNCHANGED <<userVars, projectVars, nextIssueId, members, tokenVars, now, limiterVars, roles, ErrFailedValidation, wg>>

\* Controller.AssignUserToProject: Repository.GetUserByID.
AssignUserFetchUser(p, userID, projectID) ==
    /\ req[p].pc = "idle"
    /\ LET r == Step("AssignUserToProject", "aup_project", Nil, "", projectID,
                     [userID |-> userID], <<>>, <<>>)
       IN req' = [req EXCEPT ![p] =
            IF userID \notin DOMAIN users THEN Done(r, ErrNotFound)
            ELSE [r EXCEPT !.cand = users[userID]]]
    /\ UNCHANGED <<storeVars, now, limiterVars, roles, ErrFailedValidation, wg>>

\* Controller.AssignUserToProject: Repository.GetProject and the role test of
\* the user fetched before.
AssignUserFetchProject(p) ==
    /\ req[p].pc = "aup_project"
    /\ req' = [req EXCEPT ![p] =
            IF req[p].id \notin DOMAIN projects THEN Done(req[p], ErrNotFound)
            ELSE IF ~AssigneeIsMember(req[p].cand) THEN Done(req[p], ErrInvalidRole)
            ELSE [req[p] EXCEPT !.pc = "aup_insert"]]
    /\ UNCHANGED <<storeVars, now, limiterVars, roles, ErrFailedValidation, wg>>

\* Controller.AssignUserToProject: the insert into projects_users
\*   INSERT INTO projects_users SELECT $1, users.id FROM users WHERE users.id = $2
\* and the translation of its duplicate key.
AssignUserInsert(p) ==
    /\ req[p].pc = "aup_insert"
    /\ LET m == <<req[p].id, req[p].in.userID>>
       IN IF m[2] \notin DOMAIN users
          THEN /\ members' = members
               /\ req' = [req EXCEPT ![p] = Done(req[p], Ok)]
          ELSE IF m[1] \notin DOMAIN projects
          THEN /\ members' = members
               /\ req' = [req EXCEPT ![p] = Done(req[p], ErrUnclassified)]
          ELSE IF m \in members
          THEN /\ members' = members
               /\ req' = [req EXCEPT ![p] = Done(req[p], failedValidationErr(
                     AddError(NoErrors, "user", "already assigned to project")))]
          ELSE /\ members' = members \cup {m}
               /\ req' = [req EXCEPT ![p] = Done(req[p], Ok)]
    /\ UNCHANGED <<userVars, projectVars, issueVars, tokenVars, now, limiterVars, roles, ErrFailedValidation, wg>>

\* -------------------------------------------------- issues: specification
\* What an UpdateIssue request supplies; the fields left out are nil.
IssueInput(title, assignedTo, status, actualResolutionDate) ==
    [assignedTo |-> assignedTo, description |-> NoStr, title |-> title,
     targetResolutionDate |-> Nil, progress |-> NoStr,
     resolutionSummary |-> NoStr,
     actualResolutionDate |-> actualResolutionDate,
     priority |-> NoStr, status |-> status]

IssueInputs ==
    {IssueInput(NoStr, Nil, NoStr, Nil),
     IssueInput("abc", Nil, NoStr, Nil),
     IssueInput(NoStr, 3, NoStr, Nil),
     IssueInput(NoStr, 2, NoStr, Nil),
     IssueInput(NoStr, Nil, "open", Nil),
     IssueInput(NoStr, Nil, "closed", Nil),
     IssueInput(NoStr, Nil, NoStr, 2)}

\* The population the issue specification starts from: a manager and two
\* members, one of them already on the project.
IssueSeedUsers ==
    (1 :> SeedUser("mia", "a@x.io", "manager"))
        @@ (2 :> SeedUser("moe", "b@x.io", "member"))
        @@ (3 :> SeedUser("mel", "c@x.io", "member"))
SeedProject ==
    [name |-> "alpha", description |-> "a project", assignedTo |-> Nil,
     startDate |-> 1, targetEndDate |-> 2, actualEndDate |-> Nil,
     version |-> InitialVersion]

InitIssues ==
    /\ users = IssueSeedUsers
    /\ nextUserId = 4
    /\ projects = (1 :> SeedProject)
    /\ nextProjectId = 2
    /\ issues = <<>>
    /\ nextIssueId = 1
    /\ members = {<<1, 2>>}
    /\ tokens = {}
    /\ nextToken = 1
    /\ now = 1
    /\ req = [p \in Procs |-> Idle]
    /\ LimiterAtStart
    /\ RolesAtStart
    /\ ErrorsAtStart
    /\ TrackerAtStart

NextIssues ==
    \/ \E p \in Procs, u \in {1, 3} : AssignUserFetchUser(p, u, 1)
    \/ \E p \in Procs : AssignUserFetchProject(p)
    \/ \E p \in Procs : AssignUserInsert(p)
    \/ \E p \in Procs, reporter \in {1, 3}, a \in {Nil, 2, 3} :
          CreateIssueBegin(p, "crash", reporter, 1, a, "", 3)
    \/ \E p \in Procs : CreateIssueInsert(p)
    \/ \E p \in Procs, id \in IssueIds, in \in IssueInputs, actor \in {1, 3} :
          UpdateIssueFetch(p, id, in, actor)
    \/ \E p \in Procs : UpdateIssueAssignee(p)
    \/ \E p \in Procs : UpdateIssueWrite(p)
    \/ \E p \in Procs, id \in IssueIds : DeleteIssue(p, id)
    \/ \E p \in Procs : UpdateUserFetch(p, 3, NoStr, NoStr, "lead")
    \/ \E p \in Procs : UpdateUserWrite(p)
    \/ \E p \in Procs : Return(p)

SpecIssues == InitIssues /\ [][NextIssues]_vars

\* ---------------------------------------------------- projects: properties
\* Request p ends its operation `op` in this step.
Completes(p, op) ==
    /\ req[p].pc # "done"
    /\ req'[p].pc = "done"
    /\ req'[p].op = op

\* The user row `a` has had role `role` since it was created.
AlwaysRole(a, role) ==
    /\ a \in DOMAIN users
    /\ users[a].role = role
    /\ users[a].version = InitialVersion

\* C3: in every reachable state every project whose assignedTo is non-null
\* refers to an existing user whose current role is "lead".
C3_AssigneeIsCurrentLead ==
    \A j \in DOMAIN projects :
        projects[j].assignedTo # Nil =>
            /\ projects[j].assignedTo \in DOMAIN users
            /\ users[projects[j].assignedTo].role = "lead"

\* C5 as stated: an UpdateProject that names as new assignee a user whose role
\* is "member", and that is not stopped by another error (lookup, ownership,
\* validation, conflict), returns InvalidRole whatever the role of the acting
\* user: it never succeeds.
C5_MemberAssigneeAlwaysInvalidRole ==
    \A p \in Procs :
        (/\ Finished(p)
         /\ req[p].op = "UpdateProject"
         /\ AlwaysRole(req[p].in.assignedTo, "member")
         /\ req[p].result.kind \in {"ok", "InvalidRole"})
        => req[p].result = ErrInvalidRole

\* C5 as amended: UpdateProject returns InvalidRole exactly when the acting
\* user is a manager and the named assignee exists with a role other than
\* "lead", and then no project row changes; for an acting user of any other
\* role the named assignee is ignored: the operation never returns
\* InvalidRole and the stored assignedTo stays as it was.
C5_InvalidRoleOnlyForManager ==
    [][\A p \in Procs :
          Completes(p, "UpdateProject") =>
            LET a == req'[p].in.assignedTo
                id == req'[p].id
            IN /\ (req'[p].result = ErrInvalidRole) <=>
                    (/\ req[p].pc = "up_assignee"
                     /\ req'[p].role = "manager"
                     /\ a \in DOMAIN users
                     /\ users[a].role # "lead")
               /\ req'[p].result = ErrInvalidRole => projects' = projects
               /\ (req'[p].role # "manager" /\ id \in DOMAIN projects) =>
                    /\ id \in DOMAIN projects'
                    /\ projects'[id].assignedTo = projects[id].assignedTo
      ]_vars

\* C5 witness: a manager's UpdateProject naming the member has returned
\* InvalidRole.
C5_Witness ==
    \E p \in Procs :
        /\ Finished(p)
        /\ req[p].op = "UpdateProject"
        /\ req[p].role = "manager"
        /\ AlwaysRole(req[p].in.assignedTo, "member")
        /\ req[p].result = ErrInvalidRole

\* C6: UpdateProject by an acting user with role "lead" on a project whose
\* current assignee is not that user (a project without assignee included)
\* returns NotPermitted and leaves the stored project unchanged.
C6_LeadNotOwnerIsNotPermitted ==
    [][\A p \in Procs :
          (/\ req[p].pc = "idle"
           /\ req'[p].op = "UpdateProject"
           /\ req'[p].role = "lead"
           /\ req'[p].id \in DOMAIN projects
           /\ projects[req'[p].id].assignedTo # req'[p].actor)
          => /\ req'[p].result = ErrNotPermitted
             /\ projects' = projects
      ]_vars

\* ------------------------------------------------------ issues: properties
\* C4: in every reachable state every issue whose assignedTo is non-null
\* refers to a user who is on the issue's project and whose current role is
\* "member".
C4_AssigneeIsCurrentProjectMember ==
    \A i \in DOMAIN issues :
        issues[i].assignedTo # Nil =>
            /\ issues[i].assignedTo \in DOMAIN users
            /\ <<issues[i].projectId, issues[i].assignedTo>> \in members
            /\ users[issues[i].assignedTo].role = "member"

\* C7: UpdateIssue by an acting user with role "member" who is neither the
\* reporter nor the assignee of the issue returns NotPermitted, and no stored
\* field of the issue changes.
C7_MemberNotOwnerIsNotPermitted ==
    [][\A p \in Procs :
          (/\ req[p].pc = "idle"
           /\ req'[p].op = "UpdateIssue"
           /\ req'[p].role = "member"
           /\ req'[p].id \in DOMAIN issues
           /\ issues[req'[p].id].reporterId # req'[p].actor
           /\ issues[req'[p].id].assignedTo # req'[p].actor)
          => /\ req'[p].result = ErrNotPermitted
             /\ issues' = issues
      ]_vars

\* Request p's UpdateIssue writes issue i in this step.
WritesIssue(p, i) ==
    /\ req[p].pc = "ui_write"
    /\ req[p].id = i
    /\ req'[p].pc = "done"
    /\ req'[p].result = Ok

UpdateSeedUsers == SeedUsers @@ (4 :> SeedUser("lea", "d@x.io", "lead"))
UpdateSeedProjects ==
    (1 :> [SeedProject EXCEPT !.assignedTo = 4])
        @@ (2 :> [SeedProject EXCEPT !.name = "bravo"])
UpdateSeedIssues ==
    (1 :> [title |-> "crash", description |-> "an issue", reporterId |-> 1,
           reportedDate |-> 1, projectId |-> 1, assignedTo |-> 3,
           status |-> CreatedStatus, priority |-> "low", targetResolutionDate |-> 3,
           progress |-> "", actualResolutionDate |-> Nil, resolutionSummary |-> "",
           version |-> InitialVersion])

InitUpdates ==
    /\ users = UpdateSeedUsers
    /\ nextUserId = 5
    /\ projects = UpdateSeedProjects
    /\ nextProjectId = 3
    /\ issues = UpdateSeedIssues
    /\ nextIssueId = 2
    /\ members = {<<1, 3>>}
    /\ tokens = {}
    /\ nextToken = 1
    /\ now = 1
    /\ req = [p \in Procs |-> Idle]
    /\ LimiterAtStart
    /\ RolesAtStart
    /\ ErrorsAtStart
    /\ TrackerAtStart

NextUpdates ==
    \/ \E p \in Procs, id \in {3, 5}, n \in {NoStr, "melanie", "me"},
          e \in {NoStr, "a@x.io"} : UpdateUserFetch(p, id, n, e, NoStr)
    \/ \E p \in Procs : UpdateUserWrite(p)
    \/ \E p \in Procs, n \in {NoStr, "bravo", "gamma"}, a \in {Nil, 3},
          actor \in {1, 2} : UpdateProjectFetch(p, 1, ProjectInput(n, a), actor)
    \/ \E p \in Procs : UpdateProjectAssignee(p)
    \/ \E p \in Procs : UpdateProjectWrite(p)
    \/ \E p \in Procs, in \in IssueInputs, actor \in {1, 2} :
          UpdateIssueFetch(p, 1, in, actor)
    \/ \E p \in Procs : UpdateIssueAssignee(p)
    \/ \E p \in Procs : UpdateIssueWrite(p)
    \/ \E p \in Procs : Return(p)

SpecUpdates == InitUpdates /\ [][NextUpdates]_vars

\* ------------------------------------------- concurrent updates: properties
UpdateOps == {"UpdateUser", "UpdateProject", "UpdateIssue"}

\* The table an update operation writes.
TableOf(op) ==
    CASE op = "UpdateUser" -> users
      [] op = "UpdateProject" -> projects
      [] op = "UpdateIssue" -> issues

\* Requests p and q have both run the same update operation on the same
\* entity, fetched it at the same version, and both issued their write.
BothWrote(p, q) ==
    /\ p # q
    /\ Finished(p) /\ Finished(q)
    /\ req[p].op \in UpdateOps
    /\ req[q].op = req[p].op
    /\ req[q].id = req[p].id
    /\ req[p].wrote /\ req[q].wrote
    /\ req[q].fetched = req[p].fetched

\* No write other than those of p and q has reached the entity since they
\* fetched it.
OnlyTheirWrites(p, q) ==
    LET T == TableOf(req[p].op)
        id == req[p].id
        v == req[p].fetched
    IN /\ id \in DOMAIN T
       /\ \/ T[id].version = v
          \/ T[id].version = v + 1 /\ Ok \in {req[p].result, req[q].result}

\* C1 as stated: of two updates of one entity fetched at the same version
\* that both submit their write, exactly one succeeds and the other returns
\* EditConflict, and the stored version is one higher than the fetched one.
C1_ExactlyOneWins ==
    \A p, q \in Procs :
        (BothWrote(p, q) /\ OnlyTheirWrites(p, q)) =>
            /\ {req[p].result, req[q].result} = {Ok, ErrEditConflict}
            /\ TableOf(req[p].op)[req[p].id].version = req[p].fetched + 1

\* Request p's update issues its write in this step.
WriteStep(p) ==
    /\ req[p].pc \in {"uu_write", "up_write", "ui_write"}
    /\ req'[p].pc = "done"

\* The write of p fails on a uniqueness constraint of its table: the email
\* of a user (FailedValidation keyed "email"), the name of a project (an
\* error outside the taxonomy).
UniquenessFailure(p) ==
    \/ /\ req[p].op = "UpdateUser"
       /\ EmailTaken(req[p].cand.email, req[p].id)
       /\ req'[p].result.kind = "FailedValidation"
       /\ DOMAIN req'[p].result.errors = {"email"}
    \/ /\ req[p].op = "UpdateProject"
       /\ ProjectNameTaken(req[p].cand.name, req[p].id)
       /\ req'[p].result = ErrUnclassified

\* C1 as amended: of two updates of one entity fetched at the same version at
\* most one succeeds.  A write that finds the stored version different from
\* the fetched one returns EditConflict and changes nothing; a write that
\* finds it equal either succeeds, and then the stored entity holds exactly
\* that request's field values at the fetched version plus one, or fails on
\* a uniqueness constraint (email of a user, name of a project) and changes
\* nothing, so the other update can still succeed.
C1_AtMostOneWins ==
    [][/\ \A p, q \in Procs :
            BothWrote(p, q)' => ~(req'[p].result = Ok /\ req'[q].result = Ok)
       /\ \A p \in Procs :
            WriteStep(p) =>
              LET T == TableOf(req[p].op)
                  id == req[p].id
                  after == IF req[p].op = "UpdateUser" THEN users'
                           ELSE IF req[p].op = "UpdateProject" THEN projects'
                           ELSE issues'
              IN /\ req[p].cand.version = req[p].fetched
                 /\ IF id \notin DOMAIN T \/ T[id].version # req[p].fetched
                    THEN /\ req'[p].result = ErrEditConflict
                         /\ after = T
                    ELSE \/ /\ req'[p].result = Ok
                            /\ after = [T EXCEPT ![id] =
                                   [req[p].cand EXCEPT !.version = req[p].fetched + 1]]
                         \/ /\ UniquenessFailure(p)
                            /\ after = T
      ]_vars

\* C1 witness: two UpdateIssue requests fetched the issue at the same
\* version and both wrote; one has succeeded and the other has returned
\* EditConflict.
C1_Witness ==
    \E p, q \in Procs :
        /\ BothWrote(p, q)
        /\ req[p].op = "UpdateIssue"
        /\ req[p].result = Ok
        /\ req[q].result = ErrEditConflict
        /\ issues[req[p].id].version = req[p].fetched + 1

\* C2: the stored version of an entity changes only through a successful
\* update, which raises it by exactly 1, and no stored field changes without
\* it; an update that returns an error leaves every stored entity as it was.
C2_VersionStepsWithSuccess ==
    [][/\ \A op \in UpdateOps :
            LET T == TableOf(op)
                after == IF op = "UpdateUser" THEN users'
                         ELSE IF op = "UpdateProject" THEN projects'
                         ELSE issues'
            IN \A id \in DOMAIN T :
                  (id \in DOMAIN after /\ after[id] # T[id]) =>
                     /\ after[id].version = T[id].version + 1
                     /\ \E p \in Procs : /\ WriteStep(p)
                                         /\ req[p].op = op
                                         /\ req[p].id = id
                                         /\ req'[p].result = Ok
       /\ \A p \in Procs :
            (/\ req[p].pc # "done"
             /\ req'[p].pc = "done"
             /\ req'[p].op \in UpdateOps
             /\ req'[p].result # Ok)
            => /\ users' = users
               /\ projects' = projects
               /\ issues' = issues
      ]_vars

\* C2 witness: an UpdateProject has returned EditConflict after another
\* update raised the stored version by one over the version it had fetched.
C2_Witness ==
    \E p \in Procs :
        /\ Finished(p)
        /\ req[p].op = "UpdateProject"
        /\ req[p].result = ErrEditConflict
        /\ req[p].id \in DOMAIN projects
        /\ projects[req[p].id].version = req[p].fetched + 1


\* ================================================== updates and deletions
\* The update operations of the three entities interleaved with the deletion
\* of their targets: user 2, project 2 and issue 1 of the seeded population.
NextDeletes ==
    \/ \E p \in Procs, n \in {NoStr, "leena"} : UpdateUserFetch(p, 2, n, NoStr, NoStr)
    \/ \E p \in Procs : UpdateUserWrite(p)
    \/ \E p \in Procs, n \in {NoStr, "gamma"}, a \in {Nil, 4} :
          UpdateProjectFetch(p, 2, ProjectInput(n, a), 1)
    \/ \E p \in Procs : UpdateProjectAssignee(p)
    \/ \E p \in Procs : UpdateProjectWrite(p)
    \/ \E p \in Procs, in \in {IssueInput("crash!", Nil, NoStr, Nil),
                                IssueInput(NoStr, 3, "closed", Nil)} :
          UpdateIssueFetch(p, 1, in, 1)
    \/ \E p \in Procs : UpdateIssueAssignee(p)
    \/ \E p \in Procs : UpdateIssueWrite(p)
    \/ \E p \in Procs : DeleteUser(p, 2)
    \/ \E p \in Procs : DeleteProject(p, 2)
    \/ \E p \in Procs : DeleteIssue(p, 1)
    \/ \E p \in Procs : Return(p)

SpecDeletes == InitUpdates /\ [][NextDeletes]_vars

\* C12: an update that issues its write after its target row was deleted
\* returns EditConflict (the outcome of a version mismatch), not NotFound and
\* not an unclassified failure, and leaves the store as it is: the deleted
\* row is not recreated.
C12_WriteAfterDeleteIsEditConflict ==
    [][\A p \in Procs :
          (WriteStep(p) /\ req[p].id \notin DOMAIN TableOf(req[p].op))
          => /\ req'[p].result = ErrEditConflict
             /\ users' = users
             /\ projects' = projects
             /\ issues' = issues
             /\ members' = members
             /\ tokens' = tokens
      ]_vars

\* C12 witness: an UpdateProject that had fetched its target has written
\* after a DeleteProject removed the target, and has returned EditConflict.
C12_Witness ==
    \E p, q \in Procs :
        /\ Finished(p) /\ Finished(q)
        /\ req[p].op = "UpdateProject" /\ req[q].op = "DeleteProject"
        /\ req[q].id = req[p].id
        /\ req[q].result = Ok
        /\ req[p].wrote
        /\ req[p].fetched = InitialVersion
        /\ req[p].id \notin DOMAIN projects
        /\ req[p].result = ErrEditConflict


\* ================================================================ listings
\* A sort value of the query string: a column name, "-" before it for
\* descending order.
SortValue(column, desc) == [column |-> column, desc |-> desc]
Both(columns) == {SortValue(c, d) : c \in columns, d \in BOOLEAN}

\* The SortSafelist each handler sets.
ProjectSortSafelist ==
    Both({"id", "name", "assigned_to", "start_date", "target_end_date",
          "actual_end_date", "created_by"})
IssueSortSafelist ==
    Both({"id", "title", "reported_date", "project_id", "assigned_to", "status",
          "priority"})
UserSortSafelist == Both({"id", "name", "email", "created_on", "modified_on"})
ProjectUserSortSafelist == Both({"id"})

\* A query-string value read as an integer: absent, not a number, or n.
QsAbsent == [given |-> FALSE, int |-> FALSE, val |-> 0]
QsText == [given |-> TRUE, int |-> FALSE, val |-> 0]
QsInt(n) == [given |-> TRUE, int |-> TRUE, val |-> n]

\* Handler.readInt: the value, or the default when absent or not a number.
readInt(q, defaultValue) == IF q.given /\ q.int THEN q.val ELSE defaultValue

\* Handler.readInt: the error it adds for a value that is not a number.
readIntErrors(errs, q, key) ==
    IF q.given /\ ~q.int THEN AddError(errs, key, "must be an integer value") ELSE errs

\* The handler's reading of page, page_size and sort (defaults 1, 20, "id").
ReadFilters(page, pageSize, sort, safelist) ==
    [page |-> readInt(page, 1), pageSize |-> readInt(pageSize, 20),
     sort |-> sort, sortSafelist |-> safelist]
ReadFiltersErrors(page, pageSize) ==
    readIntErrors(readIntErrors(NoErrors, page, "page"), pageSize, "page_size")

\* Filters.Validate
FiltersValidate(errs, f) ==
    LET e1 == Check(errs, f.page >= 1, "page", "must be greater than zero")
        e2 == Check(e1, f.pageSize >= 1, "page_size", "must be greater than zero")
        e3 == Check(e2, f.pageSize <= 100, "page_size", "must be a maximum of 100")
    IN Check(e3, f.sort \in f.sortSafelist, "sort", "invalid sort value")

\* Filters.Limit and Filters.Offset
FiltersLimit(f) == f.pageSize
FiltersOffset(f) == (f.page - 1) * f.pageSize

\* The zero value of Metadata.
EmptyMetadata ==
    [currentPage |-> 0, pageSize |-> 0, firstPage |-> 0, lastPage |-> 0,
     totalRecords |-> 0]

\* CalculateMetadata
CalculateMetadata(totalRecords, page, pageSize) ==
    IF totalRecords = 0 THEN EmptyMetadata
    ELSE [currentPage |-> page, pageSize |-> pageSize, firstPage |-> 1,
          lastPage |-> (totalRecords + pageSize - 1) \div pageSize,
          totalRecords |-> totalRecords]

\* A listing that lets an invalid filter through.
ListRefusedNever(v) == FALSE

\* The guard every list operation starts with:
\*   if filters.Validate(v); !v.Valid() { return ..., failedValidationErr(v.Errors) }
ListRefused(v) == ~Valid(v)

\* The arguments of LIMIT and OFFSET exchanged.
ListArgsSwapped(f) == [limit |-> FiltersOffset(f), offset |-> FiltersLimit(f)]

\* The arguments the listing query binds to LIMIT and OFFSET.
ListArgs(f) == [limit |-> FiltersLimit(f), offset |-> FiltersOffset(f)]

\* CalculateMetadata called with page and page size exchanged.
ListMetadataSwapped(totalRecords, f) ==
    CalculateMetadata(totalRecords, f.pageSize, f.page)

\* The metadata a listing returns:
\*   model.CalculateMetadata(totalRecords, filters.Page, filters.PageSize)
ListMetadata(totalRecords, f) == CalculateMetadata(totalRecords, f.page, f.pageSize)

\* ORDER BY <column> <direction>, id ASC over rows told apart by id; the
\* listings are run with the sort column "id".
RECURSIVE Ascending(_)
Ascending(ids) ==
    IF ids = {} THEN <<>>
    ELSE LET m == CHOOSE x \in ids : \A y \in ids : x <= y
         IN <<m>> \o Ascending(ids \ {m})
Reverse(seq) == [i \in 1..Len(seq) |-> seq[Len(seq) + 1 - i]]
OrderBy(ids, sort) ==
    IF sort.column = "id" /\ sort.desc THEN Reverse(Ascending(ids)) ELSE Ascending(ids)

\* LIMIT limit OFFSET offset
LimitOffset(seq, limit, offset) ==
    SubSeq(seq, offset + 1, IF offset + limit < Len(seq) THEN offset + limit ELSE Len(seq))

\* The listing query and the loop over its rows: the page of rows, and
\* totalRecords as scanned from count(*) OVER() of the rows returned (0 when
\* the page holds no row).  The store refuses a negative LIMIT or OFFSET.
RunListing(ids, f) ==
    LET args == ListArgs(f)
        refused == args.limit < 0 \/ args.offset < 0
        rows == IF refused THEN <<>>
                ELSE LimitOffset(OrderBy(ids, f.sort), args.limit, args.offset)
        total == IF rows = <<>> THEN 0 ELSE Cardinality(ids)
    IN [error |-> refused, rows |-> rows, totalRecords |-> total,
        metadata |-> ListMetadata(total, f)]

\* A list operation from its handler's reading of the query string to its
\* return: readInt, Filters.Validate, the parsing of the date filters, the
\* listing query.
List(p, op, page, pageSize, sort, safelist, filter, badDate, ids) ==
    /\ req[p].pc = "idle"
    /\ LET f == ReadFilters(page, pageSize, sort, safelist)
           v == FiltersValidate(ReadFiltersErrors(page, pageSize), f)
           r == Step(op, "done", Nil, "", Nil,
                     [page |-> page, pageSize |-> pageSize, sort |-> sort,
                      safelist |-> safelist, filter |-> filter, filters |-> f],
                     <<>>, <<>>)
           rq == [r EXCEPT !.query = [sort |-> f.sort] @@ ListArgs(f)]
           listing == RunListing(ids, f)
       IN req' = [req EXCEPT ![p] =
            IF ListRefused(v) THEN Done(r, failedValidationErr(v))
            ELSE IF badDate THEN Done(r, ErrUnclassified)
            ELSE IF listing.error THEN Done(rq, ErrUnclassified)
            ELSE Done([rq EXCEPT !.fetched = listing], Ok)]
    /\ UNCHANGED <<storeVars, now, limiterVars, roles, ErrFailedValidation, wg>>

\* Controller.GetAllUsers and Repository.GetAllUsers, filtered by role.
GetAllUsers(p, role, page, pageSize, sort) ==
    List(p, "GetAllUsers", page, pageSize, sort, UserSortSafelist, role, FALSE,
         {id \in DOMAIN users : role = "" \/ users[id].role = role})

\* Controller.GetProjectUsers and Repository.GetProjectUsers.
GetProjectUsers(p, projectID, role, page, pageSize, sort) ==
    List(p, "GetProjectUsers", page, pageSize, sort, ProjectUserSortSafelist,
         <<projectID, role>>, FALSE,
         {id \in DOMAIN users : /\ <<projectID, id>> \in members
                                /\ projectID \in DOMAIN projects
                                /\ role = "" \/ users[id].role = role})

\* Controller.GetAllProjects and Repository.GetAllProjects, filtered by
\* assignee and start date (BadDate: a string time.Parse rejects).
GetAllProjects(p, assignedTo, startDate, page, pageSize, sort) ==
    List(p, "GetAllProjects", page, pageSize, sort, ProjectSortSafelist,
         <<assignedTo, startDate>>, startDate = BadDate,
         {id \in DOMAIN projects :
             /\ assignedTo = Nil \/ projects[id].assignedTo = assignedTo
             /\ startDate = Nil \/ projects[id].startDate = startDate})

\* Service.GetAllIssues and Repository.GetAllIssues, filtered by project and
\* reported date.
GetAllIssues(p, projectID, reportedDate, page, pageSize, sort) ==
    List(p, "GetAllIssues", page, pageSize, sort, IssueSortSafelist,
         <<projectID, reportedDate>>, reportedDate = BadDate,
         {id \in DOMAIN issues :
             /\ projectID = Nil \/ issues[id].projectId = projectID
             /\ reportedDate = Nil \/ issues[id].reportedDate = reportedDate})

\* CalculateMetadata applied to a total, a page and a page size.
Metadata(p, totalRecords, page, pageSize) ==
    /\ req[p].pc = "idle"
    /\ req' = [req EXCEPT ![p] =
         Done([Step("CalculateMetadata", "done", Nil, "", Nil,
                    [totalRecords |-> totalRecords, page |-> page,
                     pageSize |-> pageSize], <<>>, <<>>)
                 EXCEPT !.fetched = CalculateMetadata(totalRecords, page, pageSize)], Ok)]
    /\ UNCHANGED <<storeVars, now, limiterVars, roles, ErrFailedValidation, wg>>

\* ------------------------------------------------ listings: specification
ListOps == {"GetAllUsers", "GetProjectUsers", "GetAllProjects", "GetAllIssues"}
PageInputs == {QsAbsent, QsText, QsInt(0), QsInt(2), QsInt(3)}
PageSizeInputs == {QsAbsent, QsInt(0), QsInt(1), QsInt(3), QsInt(101)}
\* Sort values: "id", "-id", a column of no safelist, and "-title", which
\* only the issue listing accepts.
SortInputs == {SortValue("id", FALSE), SortValue("id", TRUE),
               SortValue("password_hash", FALSE), SortValue("title", TRUE)}

NextLists ==
    \/ \E p \in Procs, role \in {"", "lead", "tester"}, page \in PageInputs,
          size \in PageSizeInputs, sort \in SortInputs :
          GetAllUsers(p, role, page, size, sort)
    \/ \E p \in Procs, page \in PageInputs, size \in {QsInt(1), QsInt(101)},
          sort \in SortInputs : GetProjectUsers(p, 1, "", page, size, sort)
    \/ \E p \in Procs, d \in {Nil, BadDate}, page \in {QsAbsent, QsInt(2)},
          size \in {QsInt(1), QsInt(0)}, sort \in SortInputs :
          GetAllProjects(p, Nil, d, page, size, sort)
    \/ \E p \in Procs, page \in {QsAbsent, QsInt(2)}, size \in {QsInt(1)},
          sort \in SortInputs \ {SortValue("title", TRUE)} :
          GetAllIssues(p, 1, Nil, page, size, sort)
    \/ \E p \in Procs, total \in {0, 1, 20, 95, 100}, page \in {1, 5},
          size \in {1, 20, 100} : Metadata(p, total, page, size)
    \/ \E p \in Procs : Return(p)

SpecLists == InitUpdates /\ [][NextLists]_vars

\* -------------------------------------------------- listings: properties
\* Request p has finished a list operation.
Listed(p) == Finished(p) /\ req[p].op \in ListOps

\* C13: a list operation (projects, issues, users, project users) given a
\* sort value outside its resource's safelist returns FailedValidation, and
\* the listing query is not executed.
C13_UnsafeSortIsRefused ==
    \A p \in Procs :
        (Listed(p) /\ req[p].in.sort \notin req[p].in.safelist) =>
            /\ req[p].result.kind = "FailedValidation"
            /\ req[p].query = <<>>
            /\ req[p].fetched = <<>>

\* C13 witness: a GetProjectUsers with a valid page and page size and the
\* sort value "password_hash" has been refused for its sort value alone.
C13_Witness ==
    \E p \in Procs :
        /\ Listed(p)
        /\ req[p].op = "GetProjectUsers"
        /\ req[p].in.sort = SortValue("password_hash", FALSE)
        /\ req[p].in.filters.page = 2
        /\ req[p].in.filters.pageSize = 1
        /\ req[p].result.kind = "FailedValidation"
        /\ DOMAIN req[p].result.errors = {"sort"}
        /\ req[p].query = <<>>

\* C14: a listing query is executed only with page >= 1 and page size in
\* 1..100, and then its LIMIT is the page size and its OFFSET is
\* (page - 1) * page size; the rows returned are at most a page.
C14_LimitAndOffset ==
    \A p \in Procs :
        (Listed(p) /\ req[p].query # <<>>) =>
            LET page == req[p].in.filters.page
                size == req[p].in.filters.pageSize
            IN /\ req[p].result = Ok
               /\ page >= 1
               /\ size \in 1..100
               /\ req[p].query.limit = size
               /\ req[p].query.offset + size = page * size
               /\ Len(req[p].fetched.rows) <= size

\* C14 witness: GetAllUsers of the four users with page 2 and page size 3
\* has run its query with LIMIT 3 OFFSET 3 and returned the fourth user.
C14_Witness ==
    \E p \in Procs :
        /\ Listed(p)
        /\ req[p].op = "GetAllUsers"
        /\ req[p].in.page = QsInt(2)
        /\ req[p].in.pageSize = QsInt(3)
        /\ req[p].query.limit = 3
        /\ req[p].query.offset = 3
        /\ req[p].fetched.rows = <<4>>

\* The metadata that goes with totalRecords, page and page size: empty for
\* no record, else first page 1 and as last page the least number of pages
\* of that size that hold all the records.
IsMetadataOf(m, totalRecords, page, pageSize) ==
    IF totalRecords = 0 THEN m = EmptyMetadata
    ELSE /\ m.currentPage = page
         /\ m.pageSize = pageSize
         /\ m.firstPage = 1
         /\ m.totalRecords = totalRecords
         /\ m.lastPage * pageSize >= totalRecords
         /\ (m.lastPage - 1) * pageSize < totalRecords

\* C15: the metadata of a listing is the zero value when totalRecords is 0,
\* and otherwise {page, pageSize, firstPage = 1, lastPage =
\* ceil(totalRecords / pageSize), totalRecords}; 95 records in pages of 20
\* give lastPage = 5.
C15_Metadata ==
    \A p \in Procs :
        /\ (Listed(p) /\ req[p].result = Ok) =>
              IsMetadataOf(req[p].fetched.metadata, req[p].fetched.totalRecords,
                           req[p].in.filters.page, req[p].in.filters.pageSize)
        /\ (Finished(p) /\ req[p].op = "CalculateMetadata") =>
              /\ IsMetadataOf(req[p].fetched, req[p].in.totalRecords,
                              req[p].in.page, req[p].in.pageSize)
              /\ (req[p].in.totalRecords = 95 /\ req[p].in.pageSize = 20)
                    => req[p].fetched.lastPage = 5

\* C15 witness: the metadata of 95 records in pages of 20 has been computed
\* with lastPage 5, and a listing of the four users in pages of 3 has
\* returned lastPage 2.
C15_Witness ==
    \E p, q \in Procs :
        /\ Finished(p) /\ req[p].op = "CalculateMetadata"
        /\ req[p].in.totalRecords = 95 /\ req[p].in.pageSize = 20
        /\ req[p].fetched.lastPage = 5
        /\ Listed(q) /\ req[q].op = "GetAllUsers" /\ req[q].result = Ok
        /\ req[q].in.filters.page = 2
        /\ req[q].fetched.totalRecords = 4
        /\ req[q].in.filters.pageSize = 3
        /\ req[q].fetched.metadata.lastPage = 2

\* ============================================== validation and the store
\* The create and update operations of the three entities from an empty
\* store, each with a valid and an invalid input.
InitValidation ==
    /\ users = <<>>
    /\ nextUserId = 1
    /\ projects = <<>>
    /\ nextProjectId = 1
    /\ issues = <<>>
    /\ nextIssueId = 1
    /\ members = {}
    /\ tokens = {}
    /\ nextToken = 1
    /\ now = 1
    /\ req = [p \in Procs |-> Idle]
    /\ LimiterAtStart
    /\ RolesAtStart
    /\ ErrorsAtStart
    /\ TrackerAtStart

NextValidation ==
    \/ \E p \in Procs, n \in {"ann", "al"} : CreateUser(p, n, "a@x.io", "pa55word", "manager")
    \/ \E p \in Procs : CreateUserToken(p)
    \/ \E p \in Procs, n \in {"amy", "al"} : UpdateUserFetch(p, 1, n, NoStr, NoStr)
    \/ \E p \in Procs : UpdateUserWrite(p)
    \/ \E p \in Procs, n \in {"alpha", "abcd"} :
          CreateProjectBegin(p, n, "a project", Nil, 1, 2)
    \/ \E p \in Procs : CreateProjectInsert(p)
    \/ \E p \in Procs, n \in {"bravo", "abcd"}, a \in {Nil, 2} :
          UpdateProjectFetch(p, 1, ProjectInput(n, a), 1)
    \/ \E p \in Procs : UpdateProjectAssignee(p)
    \/ \E p \in Procs : UpdateProjectWrite(p)
    \/ \E p \in Procs, t \in {"crash", "abc"} : CreateIssueBegin(p, t, 1, 1, Nil, "", 3)
    \/ \E p \in Procs : CreateIssueInsert(p)
    \/ \E p \in Procs, in \in {IssueInput("abc", Nil, NoStr, Nil),
                                IssueInput("crash!", Nil, NoStr, Nil),
                                IssueInput(NoStr, 2, NoStr, Nil)} :
          UpdateIssueFetch(p, 1, in, 1)
    \/ \E p \in Procs : UpdateIssueAssignee(p)
    \/ \E p \in Procs : UpdateIssueWrite(p)
    \/ \E p \in Procs : Return(p)

SpecValidation == InitValidation /\ [][NextValidation]_vars

CreateUpdateOps ==
    {"CreateUser", "CreateProject", "CreateIssue", "UpdateUser", "UpdateProject",
     "UpdateIssue"}

\* The errors Validate finds in the candidate of request r.
CandidateErrors(r) ==
    CASE r.op \in {"CreateUser", "UpdateUser"} -> UserValidate(r.cand, NoStr)
      [] r.op \in {"CreateProject", "UpdateProject"} -> ProjectValidate(r.cand)
      [] r.op \in {"CreateIssue", "UpdateIssue"} -> IssueValidate(r.cand)

\* The name or title request r supplied is one Validate refuses.
SuppliedInvalid(r) ==
    \/ r.op = "UpdateUser" /\ r.in.name = "al"
    \/ r.op \in {"CreateProject", "UpdateProject"} /\ r.in.name = "abcd"
    \/ r.op \in {"CreateIssue", "UpdateIssue"} /\ r.in.title = "abc"

\* C16: in every create and update operation Validate runs on the candidate
\* before the store write.  The store's create or update call is made only
\* with a candidate in which Validate finds no error; an operation that
\* returns FailedValidation leaves the store as it was; and an operation
\* given an invalid name or title ends without having called the store's
\* write, with FailedValidation unless an earlier lookup or permission
\* failure ended it.
C16_ValidationBeforeWrite ==
    [][\A p \in Procs :
          /\ (/\ req[p].pc \in {"uu_write", "up_write", "ui_write", "cp_insert", "ci_insert"}
              /\ req'[p].pc = "done")
             => DOMAIN CandidateErrors(req[p]) = {}
          /\ (req[p].pc = "idle" /\ req'[p].op = "CreateUser" /\ users' # users)
             => DOMAIN UserValidate(users'[nextUserId], NoStr) = {}
          /\ (/\ req[p].pc # "done"
              /\ req'[p].pc = "done"
              /\ req'[p].op \in CreateUpdateOps
              /\ req'[p].result.kind = "FailedValidation")
             => /\ users' = users
                /\ projects' = projects
                /\ issues' = issues
                /\ members' = members
                /\ tokens' = tokens
          /\ (/\ req[p].pc # "done"
              /\ req'[p].pc = "done"
              /\ req'[p].op \in CreateUpdateOps \ {"CreateUser"}
              /\ SuppliedInvalid(req'[p]))
             => /\ req[p].pc \in {"idle", "up_assignee", "ui_assignee"}
                /\ ~req'[p].wrote
                /\ req'[p].result.kind \in
                      {"FailedValidation", "NotFound", "NotPermitted", "InvalidRole", "panic"}
      ]_vars

\* C16 witness: an UpdateIssue that supplied the title "abc" has returned
\* FailedValidation keyed "title" without writing, and the stored issue
\* keeps its title and version.
C16_Witness ==
    \E p \in Procs :
        /\ Finished(p)
        /\ req[p].op = "UpdateIssue"
        /\ req[p].in.title = "abc"
        /\ req[p].result.kind = "FailedValidation"
        /\ "title" \in DOMAIN req[p].result.errors
        /\ ~req[p].wrote
        /\ req[p].id \in DOMAIN issues
        /\ issues[req[p].id].title = "crash"
        /\ issues[req[p].id].version = req[p].fetched

\* ===================================================== validation errors
\* A Validator in use: validator.New(), then Check and AddError calls on it,
\* then Valid.  The error map is the request's `cand`, the last call its
\* `in`, the number of calls its `fetched`.
MaxCalls == 3
ValidatorKeys == {"a", "b"}
ValidatorMessages == {"m1", "m2"}

\* validator.New()
ValidatorNew(p) ==
    /\ req[p].pc = "idle"
    /\ req' = [req EXCEPT ![p] =
         Step("Validator", "v_open", Nil, "", Nil, <<>>, NoErrors, 0)]
    /\ UNCHANGED <<storeVars, now, limiterVars, roles, ErrFailedValidation, wg>>

\* v.Check(ok, key, message)
ValidatorCheck(p, ok, key, msg) ==
    /\ req[p].pc = "v_open"
    /\ req[p].fetched < MaxCalls
    /\ req' = [req EXCEPT ![p] =
         [req[p] EXCEPT !.cand = Check(@, ok, key, msg),
                        !.in = [fn |-> "Check", ok |-> ok, key |-> key, msg |-> msg],
                        !.fetched = @ + 1]]
    /\ UNCHANGED <<storeVars, now, limiterVars, roles, ErrFailedValidation, wg>>

\* v.AddError(key, message)
ValidatorAddError(p, key, msg) ==
    /\ req[p].pc = "v_open"
    /\ req[p].fetched < MaxCalls
    /\ req' = [req EXCEPT ![p] =
         [req[p] EXCEPT !.cand = AddError(@, key, msg),
                        !.in = [fn |-> "AddError", ok |-> FALSE, key |-> key, msg |-> msg],
                        !.fetched = @ + 1]]
    /\ UNCHANGED <<storeVars, now, limiterVars, roles, ErrFailedValidation, wg>>

\* if !v.Valid() { return failedValidationErr(v.Errors) }
ValidatorValid(p) ==
    /\ req[p].pc = "v_open"
    /\ req' = [req EXCEPT ![p] =
         [req[p] EXCEPT !.pc = "done",
                        !.in = [fn |-> "Valid", ok |-> Valid(req[p].cand),
                                key |-> "", msg |-> ""],
                        !.result = IF Valid(req[p].cand) THEN Ok
                                   ELSE failedValidationErr(req[p].cand)]]
    /\ UNCHANGED <<storeVars, now, limiterVars, roles, ErrFailedValidation, wg>>

\* Validate applied to a candidate, and the outcome of the operation's
\*   if x.Validate(v); !v.Valid() { return nil, failedValidationErr(v.Errors) }
Validated(p, op, c, v) ==
    /\ req[p].pc = "idle"
    /\ req' = [req EXCEPT ![p] =
         Done(Step(op, "done", Nil, "", Nil, c, <<>>, <<>>),
              IF Valid(v) THEN Ok ELSE failedValidationErr(v))]
    /\ UNCHANGED <<storeVars, now, limiterVars, roles, ErrFailedValidation, wg>>

\* User.Validate of a candidate user with a password plaintext.
ValidateUser(p, name, email, password) ==
    LET c == [name |-> name, email |-> email, password |-> password]
    IN Validated(p, "ValidateUser", c, UserValidate(c, password))

\* Project.Validate of a candidate project.
ValidateProject(p, name, description, startDate, targetEndDate) ==
    LET c == [name |-> name, description |-> description, assignedTo |-> Nil,
              startDate |-> startDate, targetEndDate |-> targetEndDate,
              actualEndDate |-> Nil, version |-> InitialVersion]
    IN Validated(p, "ValidateProject", c, ProjectValidate(c))

\* Issue.Validate of a candidate issue reported at time 1.
ValidateIssue(p, title, description, targetResolutionDate, progress) ==
    LET c == [title |-> title, description |-> description, reporterId |-> 1,
              reportedDate |-> 1, projectId |-> 1, assignedTo |-> Nil,
              status |-> CreatedStatus, priority |-> "low",
              targetResolutionDate |-> targetResolutionDate, progress |-> progress,
              actualResolutionDate |-> Nil, resolutionSummary |-> "",
              version |-> InitialVersion]
    IN Validated(p, "ValidateIssue", c, IssueValidate(c))

\* A title of 501 bytes.
LongTitle ==
    "xxxxxxxxxxxxxxxxxxxxxxxxxxxxxxxxxxxxxxxxxxxxxxxxxxxxxxxxxxxxxxxxxxxxxxxxxxxxxxxxxxxxxxxxxxxxxxxxxxxxxxxxxxxxxxxxxxxxxxxxxxxxxxxxxxxxxxxxxxxxxxxxxxxxxxxxxxxxxxxxxxxxxxxxxxxxxxxxxxxxxxxxxxxxxxxxxxxxxxxxxxxxxxxxxxxxxxxxxxxxxxxxxxxxxxxxxxxxxxxxxxxxxxxxxxxxxxxxxxxxxxxxxxxxxxxxxxxxxxxxxxxxxxxxxxxxxxxxxxxxxxxxxxxxxxxxxxxxxxxxxxxxxxxxxxxxxxxxxxxxxxxxxxxxxxxxxxxxxxxxxxxxxxxxxxxxxxxxxxxxxxxxxxxxxxxxxxxxxxxxxxxxxxxxxxxxxxxxxxxxxxxxxxxxxxxxxxxxxxxxxxxxxxxxxxxxxxxxxxxxxxxxxxxxxxxxxxxxxxxxxxxxxxxxxxxxxxxxxxxxx"

NextErrors ==
    \/ \E p \in Procs : ValidatorNew(p)
    \/ \E p \in Procs, ok \in BOOLEAN, k \in ValidatorKeys, m \in ValidatorMessages :
          ValidatorCheck(p, ok, k, m)
    \/ \E p \in Procs, k \in ValidatorKeys, m \in ValidatorMessages :
          ValidatorAddError(p, k, m)
    \/ \E p \in Procs : ValidatorValid(p)
    \/ \E p \in Procs, n \in {"ann", "al", ""}, e \in {"a@x.io", "a.x.io"},
          pw \in {"pa55word", "pass"} : ValidateUser(p, n, e, pw)
    \/ \E p \in Procs, n \in {"alpha", "abcd"}, d \in {"a project", "abc"},
          sd \in {1, Nil}, td \in {2, Nil, 1} : ValidateProject(p, n, d, sd, td)
    \/ \E p \in Procs, t \in {"crash", "abc", "", LongTitle}, d \in {"an issue", "abc"},
          td \in {3, Nil, 1}, pr \in {"", "wip"} : ValidateIssue(p, t, d, td, pr)
    \/ \E p \in Procs : Return(p)

SpecErrors == InitValidation /\ [][NextErrors]_vars

\* ------------------------------------------- validation errors: properties
\* The fields of candidate c that break a rule of its entity's Validate.
OutOfRange(str, min, max) == Len(str) < min \/ Len(str) > max
ViolatedFields(op, c) ==
    CASE op = "ValidateUser" ->
           {k \in {"name", "email", "password"} :
              \/ k = "name" /\ OutOfRange(c.name, 3, 500)
              \/ k = "email" /\ c.email \notin WellFormedEmails
              \/ k = "password" /\ OutOfRange(c.password, 8, 72)}
      [] op = "ValidateProject" ->
           {k \in {"name", "description", "start date", "target end date"} :
              \/ k = "name" /\ OutOfRange(c.name, 5, 500)
              \/ k = "description" /\ OutOfRange(c.description, 5, 5000)
              \/ k = "start date" /\ c.startDate = Nil
              \/ k = "target end date"
                   /\ (c.targetEndDate = Nil \/ c.targetEndDate <= c.startDate)}
      [] op = "ValidateIssue" ->
           {k \in {"title", "description", "target resolution date", "progress"} :
              \/ k = "title" /\ OutOfRange(c.title, 5, 500)
              \/ k = "description" /\ OutOfRange(c.description, 5, 5000)
              \/ k = "target resolution date"
                   /\ (c.targetResolutionDate = Nil
                         \/ c.targetResolutionDate <= c.reportedDate)
              \/ k = "progress" /\ c.progress # "" /\ OutOfRange(c.progress, 5, 1000)}

\* The keys the text of a FailedValidation names, in the order it names them.
NamedFields(res) == [i \in 1..Len(res.message) |-> res.message[i][1]]

\* Sequence ks names the keys of set S, each once, ordered by name.
NamesOnceInOrder(ks, S) ==
    /\ {ks[i] : i \in 1..Len(ks)} = S
    /\ Len(ks) = Cardinality(S)
    /\ \A i, j \in 1..Len(ks) :
          i < j => \E a, b \in 1..Len(KeysInOrder) :
                      a < b /\ KeysInOrder[a] = ks[i] /\ KeysInOrder[b] = ks[j]

\* C17: a FailedValidation outcome names every violated field of the
\* candidate entity exactly once, ordered by field name, in a single error
\* value: no violation is omitted, and a candidate with several violated
\* fields gets them all.
C17_NamesEveryViolatedField ==
    \A p \in Procs :
        (Finished(p) /\ req[p].op \in {"ValidateUser", "ValidateProject", "ValidateIssue"})
        => LET violated == ViolatedFields(req[p].op, req[p].in)
           IN IF violated = {} THEN req[p].result = Ok
              ELSE /\ req[p].result.kind = "FailedValidation"
                   /\ NamesOnceInOrder(NamedFields(req[p].result), violated)

\* C18: the validator keeps at most one message per key.  Check with a true
\* condition leaves the error set as it is; Check with a false condition and
\* AddError add their message under the key when the key is not yet present
\* and leave the set as it is when it is; Valid() is true exactly when the
\* error set is empty.
C18_OneMessagePerKey ==
    [][\A p \in Procs :
          (req[p].pc = "v_open" /\ req'[p] # req[p]) =>
             LET errs == req[p].cand
                 call == req'[p].in
             IN CASE call.fn = "Check" /\ call.ok -> req'[p].cand = errs
                  [] call.fn = "Valid" ->
                       /\ req'[p].cand = errs
                       /\ call.ok <=> (Cardinality(DOMAIN errs) = 0)
                       /\ (req'[p].result = Ok) <=> call.ok
                  [] OTHER ->
                       /\ \A k \in DOMAIN errs \ {call.key} :
                             k \in DOMAIN req'[p].cand /\ req'[p].cand[k] = errs[k]
                       /\ IF call.key \in DOMAIN errs
                          THEN /\ DOMAIN req'[p].cand = DOMAIN errs
                               /\ Cardinality(DOMAIN req'[p].cand)
                                     = Cardinality(DOMAIN errs)
                          ELSE /\ DOMAIN req'[p].cand = DOMAIN errs \cup {call.key}
                               /\ req'[p].cand[call.key] = call.msg
      ]_vars

\* C18 witness: a validator that held messages under "a" and "b" after two
\* calls has been given another message for "a" by AddError; it still holds
\* exactly one message under each of the two keys.
C18_Witness ==
    \E p \in Procs :
        /\ req[p].pc = "v_open"
        /\ req[p].fetched = 3
        /\ req[p].in = [fn |-> "AddError", ok |-> FALSE, key |-> "a", msg |-> "m2"]
        /\ DOMAIN req[p].cand = {"a", "b"}
        /\ req[p].cand["b"] = "m2"

\* ========================================================= project names
\* Projects created, renamed and deleted by two requests at a time, with two
\* names to choose from and room for a second project id.
MaxNamedProjects == 2
NamedProjectIds == 1..MaxNamedProjects
NameInputs == {"alpha", "bravo"}
NameTakenMessage == "a project with this name already exists"

NextNames ==
    \/ \E p \in Procs, n \in NameInputs :
          CreateProjectUpTo(p, MaxNamedProjects, n, "a project", Nil, 1, 2)
    \/ \E p \in Procs : CreateProjectInsert(p)
    \/ \E p \in Procs, id \in NamedProjectIds, n \in NameInputs :
          UpdateProjectFetch(p, id, ProjectInput(n, Nil), 1)
    \/ \E p \in Procs : UpdateProjectWrite(p)
    \/ \E p \in Procs, id \in NamedProjectIds : DeleteProject(p, id)
    \/ \E p \in Procs : Return(p)

SpecNames == InitProjects /\ [][NextNames]_vars

\* ---------------------------------------------- project names: properties
NoTwoProjectsShareAName ==
    \A i, j \in DOMAIN projects : projects[i].name = projects[j].name => i = j

\* C19: CreateProject with a name a stored project already has returns
\* FailedValidation keyed "name" citing uniqueness and stores no new project,
\* and no two stored projects ever have the same name.
C19_ProjectNamesAreUnique ==
    [][/\ NoTwoProjectsShareAName'
       /\ \A p \in Procs :
            (/\ req[p].pc = "cp_insert"
             /\ req'[p] # req[p]
             /\ \E i \in DOMAIN projects : projects[i].name = req[p].cand.name)
            => /\ req'[p].pc = "done"
               /\ req'[p].result.kind = "FailedValidation"
               /\ DOMAIN req'[p].result.errors = {"name"}
               /\ req'[p].result.errors["name"] = NameTakenMessage
               /\ req'[p].mail = ""
               /\ projects' = projects
               /\ nextProjectId' = nextProjectId
      ]_vars

\* C19 witness: CreateProject of "alpha" has ended with FailedValidation
\* keyed "name" while the project stored under id 1 has that name, and a
\* second project with another name is stored.
C19_Witness ==
    \E p \in Procs :
        /\ Finished(p)
        /\ req[p].op = "CreateProject"
        /\ req[p].in.name = "alpha"
        /\ req[p].result.kind = "FailedValidation"
        /\ DOMAIN req[p].result.errors = {"name"}
        /\ DOMAIN projects = {1, 2}
        /\ projects[1].name = "alpha"
        /\ projects[2].name = "bravo"

\* ========================================================== notifications
\* The delivery task Controller.SendEmail starts, in a context of its own:
\* Mailer.Send renders the template, then calls DialAndSend up to MaxAttempts
\* times.  `attempts` counts the DialAndSend calls, `sent` is set by the call
\* that succeeds, `result` is what Send returns to the task.
MaxAttempts == 3
MailPcs == {"mail_render", "mail_attempt", "mail_sleep"}
TemplateInputs == {"token_activation.tmpl", "project_assign.tmpl"}

\* The loop were it to run once more.
AttemptsLeftOneMore(attempts) == attempts < MaxAttempts + 1

\* for i := 1; i <= 3; i++
AttemptsLeft(attempts) == attempts < MaxAttempts

\* Controller.SendEmail as its caller sees it: when it returns the task
\* exists.  These sections read the tracker off the tasks (InFlight); the
\* counter itself is followed in the section on the completion tracker.
SendEmail(p, recipient, template) ==
    /\ req[p].pc = "idle"
    /\ req' = [req EXCEPT ![p] =
         [Step("SendEmail", "mail_render", Nil, "", Nil,
               [recipient |-> recipient, template |-> template], <<>>, <<>>)
            EXCEPT !.mail = template]]
    /\ UNCHANGED <<storeVars, now, limiterVars, roles, ErrFailedValidation, wg>>

\* Mailer.Send up to the loop: ParseFS and the three ExecuteTemplate calls,
\* each of which returns its error to the task.
MailerRender(p, rendered) ==
    /\ req[p].pc = "mail_render"
    /\ req' = [req EXCEPT ![p] =
         IF rendered
         THEN [req[p] EXCEPT !.pc = IF AttemptsLeft(0) THEN "mail_attempt" ELSE "mail_done",
                             !.result = IF AttemptsLeft(0) THEN Pending ELSE Ok]
         ELSE [req[p] EXCEPT !.pc = "mail_done", !.result = ErrUnclassified]]
    /\ UNCHANGED <<storeVars, now, limiterVars, roles, ErrFailedValidation, wg>>

\* The task without its deferred recover.
RecoversNothing(fault) == FALSE

\* defer func() { if err := recover(); err != nil { ... } }()
Recovers(fault) == TRUE

\* A panic in the task of p, in contexts `r`: the deferred recover ends the
\* task; a panic no recover catches ends the process, and every context
\* with it.
Panicked(r, p) ==
    IF Recovers(Panic)
    THEN [r EXCEPT ![p] = [@ EXCEPT !.pc = "mail_done", !.result = Panic]]
    ELSE [x \in Procs |-> [r[x] EXCEPT !.pc = "crashed"]]

\* One m.dialer.DialAndSend(msg): it succeeds and Send returns nil, it
\* returns an error, or it panics and the task's recover ends the task.
MailerAttempt(p, outcome) ==
    /\ req[p].pc = "mail_attempt"
    /\ req' =
         CASE outcome = "sent" ->
                [req EXCEPT ![p] = [@ EXCEPT !.attempts = @ + 1, !.sent = TRUE,
                                             !.pc = "mail_done", !.result = Ok]]
           [] outcome = "failed" ->
                [req EXCEPT ![p] = [@ EXCEPT !.attempts = @ + 1, !.pc = "mail_sleep"]]
           [] outcome = "panic" ->
                Panicked([req EXCEPT ![p] = [@ EXCEPT !.attempts = @ + 1]], p)
    /\ UNCHANGED <<storeVars, now, limiterVars, roles, ErrFailedValidation, wg>>

\* A panic of the task outside DialAndSend: in mailer.New, in the rendering
\* of the template or in the sleep.
MailerPanic(p) ==
    /\ req[p].pc \in {"mail_render", "mail_sleep"}
    /\ req' = Panicked(req, p)
    /\ UNCHANGED <<storeVars, now, limiterVars, roles, ErrFailedValidation, wg>>

\* time.Sleep(5 * time.Second), i++ and the loop test; after the last
\* attempt Send returns nil.
MailerSleep(p) ==
    /\ req[p].pc = "mail_sleep"
    /\ req' = [req EXCEPT ![p] =
         IF AttemptsLeft(req[p].attempts)
         THEN [req[p] EXCEPT !.pc = "mail_attempt"]
         ELSE [req[p] EXCEPT !.pc = "mail_done", !.result = Ok]]
    /\ UNCHANGED <<storeVars, now, limiterVars, roles, ErrFailedValidation, wg>>

\* What the task logs:  if err != nil { c.Logger.Info(...) }  for the error
\* Send returned, and the deferred recover for a panic.
Logs(res) == res # Ok

\* Send has returned to the task (or panicked): the task logs.
SendEmailLog(p) ==
    /\ req[p].pc = "mail_done"
    /\ req' = [req EXCEPT ![p] =
         [req[p] EXCEPT !.pc = "mail_end", !.logged = Logs(req[p].result)]]
    /\ UNCHANGED <<storeVars, now, limiterVars, roles, ErrFailedValidation, wg>>

\* The task ends and its context is free again.
SendEmailEnd(p) ==
    /\ req[p].pc = "mail_end"
    /\ req' = [req EXCEPT ![p] = Idle]
    /\ UNCHANGED <<storeVars, now, limiterVars, roles, ErrFailedValidation, wg>>

NextMail ==
    \/ \E p \in Procs, e \in {"a@x.io", "b@x.io"}, t \in TemplateInputs :
          SendEmail(p, e, t)
    \/ \E p \in Procs, rendered \in BOOLEAN : MailerRender(p, rendered)
    \/ \E p \in Procs, o \in {"sent", "failed", "panic"} : MailerAttempt(p, o)
    \/ \E p \in Procs : MailerSleep(p)
    \/ \E p \in Procs : SendEmailLog(p)
    \/ \E p \in Procs : SendEmailEnd(p)

\* A started task is a goroutine the runtime keeps scheduling; the dialer's
\* timeout bounds each DialAndSend and the sleep is five seconds.
MailFairness ==
    \A p \in Procs :
        /\ WF_vars(\E rendered \in BOOLEAN : MailerRender(p, rendered))
        /\ WF_vars(\E o \in {"sent", "failed", "panic"} : MailerAttempt(p, o))
        /\ WF_vars(MailerSleep(p))

SpecMail == InitValidation /\ [][NextMail]_vars /\ MailFairness

\* ---------------------------------------------- notifications: properties
\* The task of p is under way.
Delivering(p) == req[p].pc \in MailPcs

\* No step of the task of p makes an attempt after a successful one, or a
\* fourth one.
AttemptsAreBounded(p) ==
    Delivering(p) =>
        /\ req'[p].attempts <= MaxAttempts
        /\ req'[p].attempts # req[p].attempts
             => /\ req[p].pc = "mail_attempt"
                /\ ~req[p].sent
                /\ req'[p].attempts = req[p].attempts + 1

\* The step ends the task of p.
TaskEnds(p) == Delivering(p) /\ req'[p].pc = "mail_done"

\* C20 as stated: every dispatched notification makes at least one and at
\* most 3 delivery attempts, makes no further attempt after the first
\* successful one, and then finishes.
C20_AtLeastOneAttempt ==
    /\ [][\A p \in Procs :
            /\ AttemptsAreBounded(p)
            /\ TaskEnds(p) => req'[p].attempts \in 1..MaxAttempts]_vars
    /\ \A p \in Procs : Delivering(p) ~> (req[p].pc = "mail_done")

\* C20 amended: a dispatched notification whose template renders makes at
\* least one and at most 3 delivery attempts, one whose template fails to
\* parse or execute makes none; no attempt follows a successful one, and
\* the delivery task always finishes.
C20_BoundedDelivery ==
    /\ [][\A p \in Procs :
            /\ AttemptsAreBounded(p)
            /\ TaskEnds(p) =>
                 IF req[p].pc = "mail_render"
                 THEN req'[p].attempts = 0 /\ req'[p].result = ErrUnclassified
                 ELSE /\ req'[p].attempts \in 1..MaxAttempts
                      /\ req'[p].sent => req'[p].result = Ok]_vars
    /\ \A p \in Procs : Delivering(p) ~> (req[p].pc = "mail_done")

\* C20 witness: one task has ended after three failed attempts, another
\* after a second attempt that succeeded.
C20_Witness ==
    \E p, q \in Procs :
        /\ req[p].pc = "mail_done"
        /\ req[p].attempts = MaxAttempts
        /\ ~req[p].sent
        /\ req[q].pc = "mail_done"
        /\ req[q].attempts = 2
        /\ req[q].sent

\* ============================================ operations and their mail
\* Operations that schedule a notification, and the tasks they start.  The
\* goroutine SendEmail created for the finished operation of p starts to run
\* in context q.
SendEmailStart(p, q) ==
    /\ p # q
    /\ req[p].pc = "done"
    /\ req[p].mail # ""
    /\ ~req[p].started
    /\ req[q].pc = "idle"
    /\ req' = [req EXCEPT
         ![p] = [@ EXCEPT !.started = TRUE],
         ![q] = [Step("SendEmail", "mail_render", Nil, "", Nil,
                      [recipient |-> NoStr, template |-> req[p].mail], <<>>, <<>>)
                   EXCEPT !.mail = req[p].mail]]
    /\ UNCHANGED <<storeVars, now, limiterVars, roles, ErrFailedValidation, wg>>

\* The handler returns; the goroutine it created lives on.
ReturnAfterStart(p) ==
    /\ req[p].mail # "" => req[p].started
    /\ Return(p)

NextDispatch ==
    \/ \E p \in Procs, a \in {Nil, 2, 3} :
          CreateProjectBegin(p, "alpha", "a project", a, 1, 2)
    \/ \E p \in Procs : CreateProjectInsert(p)
    \/ \E p \in Procs, n \in {NoStr, "abcd"}, a \in {2, 3} :
          UpdateProjectFetch(p, 1, ProjectInput(n, a), 1)
    \/ \E p \in Procs : UpdateProjectAssignee(p)
    \/ \E p \in Procs : UpdateProjectWrite(p)
    \/ \E p, q \in Procs : SendEmailStart(p, q)
    \/ \E p \in Procs, rendered \in BOOLEAN : MailerRender(p, rendered)
    \/ \E p \in Procs, o \in {"sent", "failed", "panic"} : MailerAttempt(p, o)
    \/ \E p \in Procs : MailerSleep(p)
    \/ \E p \in Procs : MailerPanic(p)
    \/ \E p \in Procs : SendEmailLog(p)
    \/ \E p \in Procs : SendEmailEnd(p)
    \/ \E p \in Procs : ReturnAfterStart(p)

SpecDispatch == InitProjects /\ [][NextDispatch]_vars

\* ------------------------------------- operations and their mail: properties
\* C21: when all 3 delivery attempts of a notification fail, the failure is
\* reported to the dispatching task and logged there, and the result of the
\* operation that scheduled the notification never shows it.
C21_FailureIsLoggedOnly ==
    /\ \A q \in Procs :
          (req[q].pc = "mail_end" /\ req[q].attempts = MaxAttempts /\ ~req[q].sent)
          => (req[q].result # Ok /\ req[q].logged)
    /\ \A p \in Procs :
          (Finished(p) /\ req[p].mail # "") => req[p].result = Ok

\* C22: a panic raised at any point of a notification delivery is contained
\* in the delivery task: it never reaches the context of the request that
\* scheduled it, never stops the process, and the operation still returns
\* its own result.
C22_PanicIsContained ==
    [][/\ \A x \in Procs : req'[x].pc # "crashed"
       /\ \A q \in Procs :
            (Delivering(q) /\ req'[q] # req[q])
            => /\ \A p \in Procs \ {q} : req'[p] = req[p]
               /\ UNCHANGED storeVars
               /\ req'[q].result = Panic => req'[q].pc = "mail_done"
      ]_vars

\* C22 witness: a delivery task has panicked and logged it, while the
\* operation that scheduled it holds its successful result.
C22_Witness ==
    \E p, q \in Procs :
        /\ Finished(p)
        /\ req[p].op = "CreateProject"
        /\ req[p].started
        /\ req[p].result = Ok
        /\ req[q].pc = "mail_end"
        /\ req[q].result = Panic
        /\ req[q].logged

\* ================================================ assignments and mail
\* UpdateProject and UpdateIssue naming an assignee, on the seeded project
\* and issue, with the delivery tasks they start.
NextAssign ==
    \/ \E p \in Procs, n \in {NoStr, "bravo", "abcd"}, a \in {2, 3} :
          UpdateProjectFetch(p, 1, ProjectInput(n, a), 1)
    \/ \E p \in Procs : UpdateProjectAssignee(p)
    \/ \E p \in Procs : UpdateProjectWrite(p)
    \/ \E p \in Procs, t \in {NoStr, "abc"}, a \in {2, 3} :
          UpdateIssueFetch(p, 1, IssueInput(t, a, NoStr, Nil), 1)
    \/ \E p \in Procs : UpdateIssueAssignee(p)
    \/ \E p \in Procs : UpdateIssueWrite(p)
    \/ \E p, q \in Procs : SendEmailStart(p, q)
    \/ \E p \in Procs, rendered \in BOOLEAN : MailerRender(p, rendered)
    \/ \E p \in Procs, o \in {"sent", "failed", "panic"} : MailerAttempt(p, o)
    \/ \E p \in Procs : MailerSleep(p)
    \/ \E p \in Procs : SendEmailLog(p)
    \/ \E p \in Procs : SendEmailEnd(p)
    \/ \E p \in Procs : ReturnAfterStart(p)

SpecAssign == InitUpdates /\ [][NextAssign]_vars

\* ------------------------------------- assignments and mail: properties
\* The context of p runs a domain operation, not a delivery task.
Operating(p) == req[p].op \in {"UpdateProject", "UpdateIssue"}

\* C24: a notification is scheduled only in the step in which the store
\* write of the operation succeeded; an operation that returns an error
\* schedules none; and no step of a delivery task, failing or not, changes
\* the store or the result of the operation that scheduled it.
C24_MailOnlyAfterWrite ==
    [][\A p \in Procs :
          /\ (Operating(p) /\ req[p].mail = "" /\ req'[p].mail # "")
             => /\ req'[p].pc = "done"
                /\ req'[p].result = Ok
                /\ req'[p].wrote
                /\ <<projects, issues>>' # <<projects, issues>>
          /\ (req'[p].op \in {"UpdateProject", "UpdateIssue"}
                /\ req'[p].pc = "done" /\ req'[p].result # Ok)
             => req'[p].mail = ""
          /\ (req[p].op = "SendEmail" /\ req'[p] # req[p])
             => /\ UNCHANGED storeVars
                /\ \A o \in Procs \ {p} : req'[o] = req[o]
      ]_vars

\* C24 witness: UpdateIssue has assigned the issue to user 3 and returned
\* success; the task it started has failed three times and ended; the issue
\* is stored as the operation wrote it.
C24_Witness ==
    \E p, q \in Procs :
        /\ Finished(p)
        /\ req[p].op = "UpdateIssue"
        /\ req[p].result = Ok
        /\ req[p].started
        /\ req[q].pc = "mail_end"
        /\ req[q].mail = "issue_assign.tmpl"
        /\ req[q].attempts = MaxAttempts
        /\ ~req[q].sent
        /\ issues[1].assignedTo = 3
        /\ issues[1].version = InitialVersion + 1

\* ================================================================ shutdown
\* serve in a context of its own, next to the delivery tasks.  `in.expired`
\* is set when the 5 second context of srv.Shutdown runs out.

\* The completion tracker: deliveries SendEmail has added and whose task has
\* not yet run wg.Done().
InFlight ==
    Cardinality({q \in Procs :
        \/ req[q].op = "SendEmail" /\ req[q].pc # "idle"
        \/ req[q].pc = "done" /\ req[q].mail # "" /\ ~req[q].started})

\* serve starts: srv.ListenAndServe() runs, the signal goroutine waits.
ServeStart(p) ==
    /\ req[p].pc = "idle"
    /\ \A q \in Procs : req[q].op # "serve"
    /\ req' = [req EXCEPT ![p] =
         Step("serve", "serving", Nil, "", Nil, [expired |-> FALSE], <<>>, <<>>)]
    /\ UNCHANGED <<storeVars, now, limiterVars, roles, ErrFailedValidation, wg>>

\* ListenAndServe returns an error other than ErrServerClosed: serve returns it.
ServeListenFails(p) ==
    /\ req[p].pc = "serving"
    /\ req' = [req EXCEPT ![p] = [@ EXCEPT !.pc = "returned", !.result = ErrUnclassified]]
    /\ UNCHANGED <<storeVars, now, limiterVars, roles, ErrFailedValidation, wg>>

\* SIGINT or SIGTERM arrives: the goroutine calls srv.Shutdown(ctx) with a
\* 5 second context; ListenAndServe returns ErrServerClosed and serve waits
\* on shutdownErr.
ServeSignal(p) ==
    /\ req[p].pc = "serving"
    /\ req' = [req EXCEPT ![p] = [@ EXCEPT !.pc = "shutdown"]]
    /\ UNCHANGED <<storeVars, now, limiterVars, roles, ErrFailedValidation, wg>>

\* The 5 second context of srv.Shutdown runs out.
ShutdownDeadline(p) ==
    /\ req[p].pc \in {"shutdown", "waiting"}
    /\ ~req[p].in.expired
    /\ req' = [req EXCEPT ![p] = [@ EXCEPT !.in = [expired |-> TRUE]]]
    /\ UNCHANGED <<storeVars, now, limiterVars, roles, ErrFailedValidation, wg>>

\* srv.Shutdown returns: nil once the connections are closed, and the
\* goroutine goes on to wg.Wait(); or the context's error once it has run
\* out, which the goroutine sends on shutdownErr and serve returns.
ServeShutdownEnds(p, closed) ==
    /\ req[p].pc = "shutdown"
    /\ ~closed => req[p].in.expired
    /\ req' = [req EXCEPT ![p] =
         IF closed THEN [@ EXCEPT !.pc = "waiting"]
         ELSE [@ EXCEPT !.pc = "returned", !.result = ErrUnclassified]]
    /\ UNCHANGED <<storeVars, now, limiterVars, roles, ErrFailedValidation, wg>>

\* wg.Wait() returns, nil is sent on shutdownErr and serve returns nil.
ServeWaitEnds(p) ==
    /\ req[p].pc = "waiting"
    /\ InFlight = 0
    /\ req' = [req EXCEPT ![p] = [@ EXCEPT !.pc = "returned", !.result = Ok]]
    /\ UNCHANGED <<storeVars, now, limiterVars, roles, ErrFailedValidation, wg>>

\* serve returns after the signal.
ServeReturns(p) == ServeShutdownEnds(p, FALSE) \/ ServeWaitEnds(p)

\* main has not returned from serve: the process and its goroutines run.
Running == \A q \in Procs : ~(req[q].op = "serve" /\ req[q].pc = "returned")

NextServe ==
    \/ \E p \in Procs : ServeStart(p)
    \/ \E p \in Procs : ServeListenFails(p)
    \/ \E p \in Procs : ServeSignal(p)
    \/ \E p \in Procs : ShutdownDeadline(p)
    \/ \E p \in Procs, closed \in BOOLEAN : ServeShutdownEnds(p, closed)
    \/ \E p \in Procs : ServeWaitEnds(p)
    \/ \E p \in Procs, t \in TemplateInputs : Running /\ SendEmail(p, "a@x.io", t)
    \/ \E p \in Procs, rendered \in BOOLEAN : Running /\ MailerRender(p, rendered)
    \/ \E p \in Procs, o \in {"sent", "failed", "panic"} :
          Running /\ MailerAttempt(p, o)
    \/ \E p \in Procs : Running /\ MailerSleep(p)
    \/ \E p \in Procs : Running /\ SendEmailLog(p)
    \/ \E p \in Procs : Running /\ SendEmailEnd(p)

SpecServe == InitValidation /\ [][NextServe]_vars

\* ------------------------------------------------------ shutdown: properties
\* serve has received the signal and has not returned.
ShuttingDown(p) == req[p].op = "serve" /\ req[p].pc \in {"shutdown", "waiting"}

\* C23: after a shutdown signal serve returns only once every delivery in
\* flight has finished or the shutdown deadline has expired: it does not
\* return before the deadline while deliveries run, and once the deadline
\* has expired it can return, whatever deliveries are still running.
C23_ShutdownWaitsUntilDeadline ==
    \A p \in Procs :
        /\ (req[p].op = "serve" /\ req[p].pc = "returned" /\ req[p].result = Ok)
           => (InFlight = 0 \/ req[p].in.expired)
        /\ (ShuttingDown(p) /\ req[p].in.expired) => ENABLED ServeReturns(p)

\* ============================================================ rate limiter
\* Handler.rateLimit: the middleware of each request and the sweeping
\* goroutine, sharing the client map under one mutex.  The clock counts
\* minutes here.
MaxClock == 6
Burst == 2
SweepWindow == 3
Ips == {"10.0.0.1", "10.0.0.2"}
ErrRateLimited == Res("RateLimitExceeded")

\* The holder of the mutex when the sweeping goroutine has it.
Sweeper == NumProcs + 1

\* A mutex that never makes its caller wait.
AcquirableAlways(holder) == TRUE

\* mu.Lock() returns once the mutex is free.
Acquirable(holder) == holder = Nil

\* The sweep were it to evict at three minutes already.
StaleAtWindow(c) == now - c.lastSeen >= SweepWindow

\* time.Since(client.lastSeen) > 3*time.Minute
Stale(c) == now - c.lastSeen > SweepWindow

\* The middleware up to mu.Lock(): the limiter switch and SplitHostPort.
RateLimitBegin(p, enabled, ip) ==
    /\ req[p].pc = "idle"
    /\ LET r == Step("rateLimit", "rl_lock", Nil, "", Nil, [ip |-> ip], <<>>, <<>>)
       IN req' = [req EXCEPT ![p] =
            IF ~enabled THEN Done(r, Ok)
            ELSE IF ip = NoStr THEN Done(r, ErrUnclassified)
            ELSE r]
    /\ UNCHANGED <<storeVars, now, limiterVars, roles, ErrFailedValidation, wg>>

\* mu.Lock()
RateLimitLock(p) ==
    /\ req[p].pc = "rl_lock"
    /\ Acquirable(mu)
    /\ mu' = p
    /\ req' = [req EXCEPT ![p] = [@ EXCEPT !.pc = "rl_touch"]]
    /\ UNCHANGED <<storeVars, now, clients, sweep, roles, ErrFailedValidation, wg>>

\* The entry of the ip is created when the map has none, and its lastSeen
\* is set to time.Now().
RateLimitTouch(p) ==
    /\ req[p].pc = "rl_touch"
    /\ LET ip == req[p].in.ip
           entry == IF ip \in DOMAIN clients THEN clients[ip]
                    ELSE [tokens |-> Burst, lastSeen |-> now]
       IN clients' = [i \in DOMAIN clients \cup {ip} |->
                        IF i = ip THEN [entry EXCEPT !.lastSeen = now] ELSE clients[i]]
    /\ req' = [req EXCEPT ![p] = [@ EXCEPT !.pc = "rl_allow"]]
    /\ UNCHANGED <<storeVars, now, mu, sweep, roles, ErrFailedValidation, wg>>

\* clients[ip].limiter.Allow(): the bucket has gained `refill` tokens since
\* its last use, up to the burst; a token is taken when there is one.
RateLimitAllow(p, refill) ==
    /\ req[p].pc = "rl_allow"
    /\ LET ip == req[p].in.ip
           sum == clients[ip].tokens + refill
           avail == IF sum > Burst THEN Burst ELSE sum
       IN /\ clients' = [clients EXCEPT ![ip].tokens = IF avail > 0 THEN avail - 1 ELSE 0]
          /\ req' = [req EXCEPT ![p] = [@ EXCEPT !.pc = "rl_unlock", !.fetched = avail > 0]]
    /\ UNCHANGED <<storeVars, now, mu, sweep, roles, ErrFailedValidation, wg>>

\* mu.Unlock(), then the 429 response or next.ServeHTTP.
RateLimitUnlock(p) ==
    /\ req[p].pc = "rl_unlock"
    /\ mu' = Nil
    /\ req' = [req EXCEPT ![p] =
         Done(req[p], IF req[p].fetched THEN Ok ELSE ErrRateLimited)]
    /\ UNCHANGED <<storeVars, now, clients, sweep, roles, ErrFailedValidation, wg>>

\* time.Sleep(time.Minute) returns.
SweepWake ==
    /\ sweep.pc = "sleep"
    /\ sweep' = [pc |-> "lock", removed |-> {}]
    /\ UNCHANGED <<storeVars, now, req, mu, clients, roles, ErrFailedValidation, wg>>

\* mu.Lock() of the sweep.
SweepLock ==
    /\ sweep.pc = "lock"
    /\ Acquirable(mu)
    /\ mu' = Sweeper
    /\ sweep' = [sweep EXCEPT !.pc = "sweeping"]
    /\ UNCHANGED <<storeVars, now, req, clients, roles, ErrFailedValidation, wg>>

\* The loop over the map: delete(clients, ip) for the stale entries.
SweepDelete ==
    /\ sweep.pc = "sweeping"
    /\ LET stale == {ip \in DOMAIN clients : Stale(clients[ip])}
       IN /\ clients' = [ip \in DOMAIN clients \ stale |-> clients[ip]]
          /\ sweep' = [pc |-> "unlock", removed |-> stale]
    /\ UNCHANGED <<storeVars, now, req, mu, roles, ErrFailedValidation, wg>>

\* mu.Unlock() of the sweep.
SweepUnlock ==
    /\ sweep.pc = "unlock"
    /\ mu' = Nil
    /\ sweep' = [sweep EXCEPT !.pc = "sleep"]
    /\ UNCHANGED <<storeVars, now, req, clients, roles, ErrFailedValidation, wg>>

NextMutex ==
    \/ \E p \in Procs, enabled \in BOOLEAN, ip \in Ips \cup {NoStr} :
          RateLimitBegin(p, enabled, ip)
    \/ \E p \in Procs : RateLimitLock(p)
    \/ \E p \in Procs : RateLimitTouch(p)
    \/ \E p \in Procs, refill \in 0..1 : RateLimitAllow(p, refill)
    \/ \E p \in Procs : RateLimitUnlock(p)
    \/ \E p \in Procs : Return(p)
    \/ SweepWake
    \/ SweepLock
    \/ SweepDelete
    \/ SweepUnlock

NextLimiter == NextMutex \/ TickUpTo(MaxClock)

\* The goroutines keep running, and a goroutine waiting in mu.Lock() gets
\* the mutex in the end (sync.Mutex hands it to a starving waiter).
LimiterFairness ==
    /\ \A p \in Procs :
          /\ SF_vars(RateLimitLock(p))
          /\ WF_vars(RateLimitTouch(p))
          /\ WF_vars(\E refill \in 0..1 : RateLimitAllow(p, refill))
          /\ WF_vars(RateLimitUnlock(p))
    /\ SF_vars(SweepLock)
    /\ WF_vars(SweepDelete)
    /\ WF_vars(SweepUnlock)

\* The middleware and the sweep at one moment, and as the minutes pass.
SpecMutex == InitValidation /\ [][NextMutex]_vars /\ LimiterFairness
SpecLimiter == InitValidation /\ [][NextLimiter]_vars

\* ---------------------------------------------------- rate limiter: properties
\* The handler of p is between its mu.Lock() and its mu.Unlock().
HandlerInMap(p) == req[p].pc \in {"rl_touch", "rl_allow", "rl_unlock"}
SweepInMap == sweep.pc \in {"sweeping", "unlock"}

\* Nobody is in the map without the mutex, and nobody but its holder.
OneAtATime ==
    /\ \A p, q \in Procs : (HandlerInMap(p) /\ HandlerInMap(q)) => p = q
    /\ \A p \in Procs : ~(HandlerInMap(p) /\ SweepInMap)
    /\ \A p \in Procs : HandlerInMap(p) <=> mu = p
    /\ SweepInMap <=> mu = Sweeper

\* C25: the client map is read and written only by the holder of the mutex,
\* never by two handlers or by a handler and the sweep at once; the handler
\* releases the mutex on the allowed and on the rate-limited path, so a
\* handler or a sweep waiting for the mutex gets it.
C25_MapUnderMutex ==
    /\ [][OneAtATime']_vars
    /\ \A p \in Procs : (req[p].pc = "rl_lock") ~> Finished(p)
    /\ (sweep.pc = "lock") ~> (sweep.pc = "sleep")

\* C25 witness: one handler holds the mutex inside the map while the other
\* handler and the sweep both wait for it.
C25_Witness ==
    \E p, q \in Procs :
        /\ req[p].pc = "rl_allow"
        /\ mu = p
        /\ req[q].pc = "rl_lock"
        /\ sweep.pc = "lock"

\* C26: the sweep removes exactly the entries last seen more than 3 minutes
\* before it and leaves the others as they are; no other step removes an
\* entry, so the limiter of a client seen within the last 3 minutes is
\* never reset.
C26_SweepEvictsOnlyStale ==
    [][LET removed == DOMAIN clients \ DOMAIN clients'
       IN IF sweep.pc = "sweeping" /\ sweep'.pc = "unlock"
          THEN /\ removed = {ip \in DOMAIN clients : now - clients[ip].lastSeen > SweepWindow}
               /\ \A ip \in DOMAIN clients' : clients'[ip] = clients[ip]
          ELSE removed = {}
      ]_vars

\* C26 witness: a sweep has just removed one client and kept the other,
\* which was last seen exactly 3 minutes ago.
C26_Witness ==
    /\ sweep.pc = "unlock"
    /\ sweep.removed = {"10.0.0.1"}
    /\ DOMAIN clients = {"10.0.0.2"}
    /\ now - clients["10.0.0.2"].lastSeen = SweepWindow

\* ========================================================= authorization
\* A table that names no role (LoadRoles decoded `null` or `{}`).
NoRoles == <<>>

\* Managers without the delete action, leads with an empty update list,
\* and no member role.
SomeRoles ==
    ("manager" :> (("read" :> <<"projects", "users", "issues">>)
                     @@ ("create" :> <<"projects", "users">>)
                     @@ ("update" :> <<"issues", "projects">>)))
      @@ ("lead" :> (("read" :> <<"issues">>) @@ ("update" :> <<>>)))

Tables == {NoRoles, SomeRoles, AllowAll}

\* The verb is mapped to read, create, update or delete when a case names
\* it, and to the empty action otherwise.
ActionFromMethodPut(httpMethod) ==
    CASE httpMethod = "GET" -> "read"
      [] httpMethod = "POST" -> "create"
      [] httpMethod \in {"PATCH", "PUT"} -> "update"
      [] httpMethod = "DELETE" -> "delete"
      [] OTHER -> ""
ActionFromMethod(httpMethod) ==
    CASE httpMethod = "GET" -> "read"
      [] httpMethod = "POST" -> "create"
      [] httpMethod = "PATCH" -> "update"
      [] httpMethod = "DELETE" -> "delete"
      [] OTHER -> ""

\* for _, resource := range resources: the loop from position i on.
RECURSIVE RangeHas(_, _, _)
RangeHas(resources, i, asset) ==
    IF i > Len(resources) THEN FALSE
    ELSE IF resources[i] = asset THEN TRUE
    ELSE RangeHas(resources, i + 1, asset)

\* The two lookups with their ok flags, then the loop over the list.
HasPermissionAnyAction(table, userRole, action, asset) ==
    IF userRole \notin DOMAIN table THEN FALSE
    ELSE \E a \in DOMAIN table[userRole] : RangeHas(table[userRole][a], 1, asset)
HasPermission(table, userRole, action, asset) ==
    IF userRole \notin DOMAIN table THEN FALSE
    ELSE IF action \notin DOMAIN table[userRole] THEN FALSE
    ELSE RangeHas(table[userRole][action], 1, asset)

\* The Authorization header: its scheme ("" when the request has none) and
\* its token. A token is its claims: whether signature, time, issuer and
\* audience check out, whether the subject is a number, and that number.
Header(scheme, valid, numeric, subject) ==
    [scheme |-> scheme, valid |-> valid, numeric |-> numeric, subject |-> subject]
NoHeader == Header("", FALSE, FALSE, Nil)
\* No header; another scheme; a forged token; the tokens of the manager, of
\* the lead, of the member that is not activated, and of a deleted user; a
\* token whose subject is no number.
HeaderInputs ==
    {NoHeader, Header("Basic", TRUE, TRUE, 1), Header("Bearer", FALSE, TRUE, 1),
     Header("Bearer", TRUE, TRUE, 1), Header("Bearer", TRUE, TRUE, 2),
     Header("Bearer", TRUE, TRUE, 3), Header("Bearer", TRUE, TRUE, 9),
     Header("Bearer", TRUE, FALSE, Nil)}
MethodInputs == {"GET", "POST", "PATCH", "DELETE", "PUT"}
\* strings.Split(strings.Trim(r.URL.Path, "/"), "/") of the request paths.
PathInputs ==
    {<<"v1">>, <<"v1", "users">>, <<"v1", "users", "activated">>,
     <<"v1", "issues", "1">>}

\* The handler returned without writing a response; the 500 response.
NoResponse == Res("NoResponse")
ServerErrorResponse == Res("ServerError")
ErrInvalidAuthenticationToken == Res("InvalidAuthenticationToken")
ErrAuthenticationRequired == Res("AuthenticationRequired")
ErrInactiveAccount == Res("InactiveAccount")
ErrRouteNotFound == Res("RouteNotFound")
ErrMethodNotAllowed == Res("MethodNotAllowed")

\* model.AnonymousUser, and the users at the start: the member has not
\* activated the account.
AnonymousUser == [SeedUser("", "", "") EXCEPT !.activated = FALSE]
RbacUsers == [SeedUsers EXCEPT ![3].activated = FALSE]

InitRbac ==
    /\ users = RbacUsers
    /\ nextUserId = 4
    /\ projects = <<>>
    /\ nextProjectId = 1
    /\ issues = <<>>
    /\ nextIssueId = 1
    /\ members = {}
    /\ tokens = {}
    /\ nextToken = 1
    /\ now = 1
    /\ req = [p \in Procs |-> Idle]
    /\ LimiterAtStart
    /\ roles \in Tables
    /\ ErrorsAtStart
    /\ TrackerAtStart

\* A path segment that a route takes as a parameter.
Param == ":id"
Route(method, pattern, handler, wrapped) ==
    [method |-> method, pattern |-> pattern, handler |-> handler, wrapped |-> wrapped]
\* router.HandlerFunc(...): `wrapped` for the handlers inside
\* requireActivatedUser.
Routes ==
    {Route("GET", <<"v1", "projects">>, "getAllProjects", TRUE),
     Route("POST", <<"v1", "projects">>, "createProject", TRUE),
     Route("GET", <<"v1", "projects", Param>>, "getProject", TRUE),
     Route("PATCH", <<"v1", "projects", Param>>, "updateProject", TRUE),
     Route("DELETE", <<"v1", "projects", Param>>, "deleteProject", TRUE),
     Route("POST", <<"v1", "users">>, "createUser", FALSE),
     Route("PUT", <<"v1", "users", "activated">>, "activateUser", FALSE),
     Route("GET", <<"v1", "users", Param>>, "getUser", TRUE),
     Route("PATCH", <<"v1", "users", Param>>, "updateUser", TRUE),
     Route("DELETE", <<"v1", "users", Param>>, "deleteUser", TRUE),
     Route("GET", <<"v1", "issues">>, "getAllIssues", TRUE),
     Route("POST", <<"v1", "issues">>, "createIssue", TRUE),
     Route("GET", <<"v1", "issues", Param>>, "getIssue", TRUE),
     Route("PATCH", <<"v1", "issues", Param>>, "updateIssue", TRUE),
     Route("DELETE", <<"v1", "issues", Param>>, "deleteIssue", TRUE),
     Route("POST", <<"v1", "tokens", "activation">>, "createActivationToken", FALSE),
     Route("POST", <<"v1", "tokens", "authentication">>, "createAuthenticationToken", FALSE)}

\* The pattern matches the path: segment by segment, a parameter taking any
\* segment.
Matches(pattern, path) ==
    /\ Len(pattern) = Len(path)
    /\ \A i \in 1..Len(path) : pattern[i] = path[i] \/ pattern[i] = Param
\* The routes of the path, for any method and for the method of the request.
RoutesOfPath(path) == {r \in Routes : Matches(r.pattern, path)}
RoutesOf(method, path) == {r \in RoutesOfPath(path) : r.method = method}

\* authenticate up to the lookup of the user: a request without the header
\* goes on as the anonymous user, a header that is no valid bearer token is
\* answered with 401, a subject that is no number with 500.
AuthenticateBegin(p, header, method, path) ==
    /\ req[p].pc = "idle"
    /\ LET in == [header |-> header, method |-> method, path |-> path]
           r == Step("request", "authn", Nil, "", Nil, in, <<>>, <<>>)
       IN req' = [req EXCEPT ![p] =
            CASE header = NoHeader ->
                   [r EXCEPT !.pc = "router", !.fetched = AnonymousUser]
              [] header # NoHeader /\ (header.scheme # "Bearer" \/ ~header.valid) ->
                   Done(r, ErrInvalidAuthenticationToken)
              [] header # NoHeader /\ header.scheme = "Bearer" /\ header.valid
                   /\ ~header.numeric -> Done(r, ServerErrorResponse)
              [] OTHER -> [r EXCEPT !.actor = header.subject]]
    /\ UNCHANGED storeVars
    /\ UNCHANGED <<now, limiterVars, roles, ErrFailedValidation, wg>>

\* user.IsAnonymous(), and the account that has not been activated.
IsAnonymous(user) == user = AnonymousUser
InactiveNever(user) == FALSE
Inactive(user) == ~user.activated

\* GetUserByID has returned, then the permission check: an unknown subject
\* is answered with 401, a store failure with 500, a canceled context with
\* no response; the asset is the second
\* segment of the path, and taking it from a path of one segment panics.
AuthenticateUser(p, failure) ==
    /\ req[p].pc = "authn"
    /\ LET r == req[p]
           id == r.actor
           action == ActionFromMethod(r.in.method)
       IN req' = [req EXCEPT ![p] =
            CASE failure = "canceled" -> Done(r, NoResponse)
              [] failure = "error" -> Done(r, ServerErrorResponse)
              [] failure = "" /\ id \notin DOMAIN users ->
                   Done(r, ErrInvalidAuthenticationToken)
              [] failure = "" /\ id \in DOMAIN users /\ Len(r.in.path) < 2 ->
                   Done([r EXCEPT !.fetched = users[id], !.role = users[id].role], Panic)
              [] OTHER ->
                   LET asset == r.in.path[2]
                       granted == HasPermission(roles, users[id].role, action, asset)
                       checked == [r EXCEPT !.fetched = users[id],
                                            !.role = users[id].role,
                                            !.query = [action |-> action, asset |-> asset,
                                                       granted |-> granted]]
                   IN IF granted THEN [checked EXCEPT !.pc = "router"]
                      ELSE Done(checked, ErrNotPermitted)]
    /\ UNCHANGED storeVars
    /\ UNCHANGED <<now, limiterVars, roles, ErrFailedValidation, wg>>

\* The router picks the handler of method and path (404 when no route has
\* the path, 405 when none has the method); requireAuthenticatedUser and
\* requireActivatedUser stand before the handlers they wrap.
ServeRoute(p) ==
    /\ req[p].pc = "router"
    /\ LET r == req[p]
           found == RoutesOf(r.in.method, r.in.path)
       IN req' = [req EXCEPT ![p] =
            IF RoutesOfPath(r.in.path) = {} THEN Done(r, ErrRouteNotFound)
            ELSE IF found = {} THEN Done(r, ErrMethodNotAllowed)
            ELSE LET route == CHOOSE x \in found : TRUE
                 IN IF route.wrapped /\ IsAnonymous(r.fetched)
                        THEN Done(r, ErrAuthenticationRequired)
                    ELSE IF route.wrapped /\ Inactive(r.fetched)
                        THEN Done(r, ErrInactiveAccount)
                    ELSE [r EXCEPT !.pc = "handler", !.op = route.handler]]
    /\ UNCHANGED storeVars
    /\ UNCHANGED <<now, limiterVars, roles, ErrFailedValidation, wg>>

\* The handler calls the domain service and writes the response.
ServeHandler(p) ==
    /\ req[p].pc = "handler"
    /\ req' = [req EXCEPT ![p] = Done(req[p], Ok)]
    /\ UNCHANGED storeVars
    /\ UNCHANGED <<now, limiterVars, roles, ErrFailedValidation, wg>>

NextRbac ==
    \/ \E p \in Procs, header \in HeaderInputs, method \in MethodInputs,
          path \in PathInputs : AuthenticateBegin(p, header, method, path)
    \/ \E p \in Procs, failure \in {"", "canceled", "error"} :
          AuthenticateUser(p, failure)
    \/ \E p \in Procs : ServeRoute(p)
    \/ \E p \in Procs : ServeHandler(p)
    \/ \E p \in Procs : Return(p)

SpecRbac == InitRbac /\ [][NextRbac]_vars

\* The permission check of the request has been evaluated.
Evaluated(p) == DOMAIN req[p].query = {"action", "asset", "granted"}
\* The resources the table lists for the role and the action.
ResourcesOf(role, action) ==
    {roles[role][action][i] : i \in 1..Len(roles[role][action])}

\* C27: HasPermission is true exactly when the role is a key of the table,
\* the action is a key under that role and the resource is in the list of
\* that action; otherwise it is false, a boolean and no error; and no step
\* changes the table.
C27_HasPermissionIsTableLookup ==
    /\ [](\A p \in Procs : Evaluated(p) =>
            /\ req[p].query.granted \in BOOLEAN
            /\ req[p].query.granted <=>
                 /\ req[p].role \in DOMAIN roles
                 /\ req[p].query.action \in DOMAIN roles[req[p].role]
                 /\ req[p].query.asset \in ResourcesOf(req[p].role, req[p].query.action))
    /\ [][roles' = roles]_vars

\* One request was granted while another was refused for an action the
\* table does not have under a role it has.
C27_Witness ==
    \E p, q \in Procs :
        /\ Evaluated(p) /\ req[p].query.granted
        /\ Evaluated(q) /\ ~req[q].query.granted
        /\ req[q].role \in DOMAIN roles
        /\ req[q].query.action \notin DOMAIN roles[req[q].role]

PublicHandlers ==
    {"createUser", "activateUser", "createActivationToken", "createAuthenticationToken"}
\* The request is in, or has been through, one of the other handlers.
InProtectedHandler(p) ==
    /\ req[p].pc \in {"handler", "done"}
    /\ req[p].op \notin PublicHandlers \cup {"request"}

\* C29: a handler of a protected operation is invoked only for a request
\* whose actor was authenticated and is activated, and for which the
\* permission check of the actor's role, the action of the verb and the
\* requested resource was evaluated to true before.
C29_ChecksBeforeHandler ==
    \A p \in Procs : InProtectedHandler(p) =>
        /\ req[p].actor \in DOMAIN users
        /\ req[p].fetched = users[req[p].actor]
        /\ req[p].fetched.activated
        /\ Evaluated(p)
        /\ req[p].query.granted
        /\ req[p].role = users[req[p].actor].role
        /\ req[p].query.action = ActionFromMethod(req[p].in.method)
        /\ req[p].query.asset = req[p].in.path[2]

\* The manager's PATCH of an issue is in its handler while the PATCH of the
\* member that is not activated was answered with the inactive-account
\* response.
C29_Witness ==
    \E p, q \in Procs :
        /\ req[p].pc = "handler" /\ req[p].op = "updateIssue" /\ req[p].actor = 1
        /\ req[q].pc = "done" /\ req[q].result = ErrInactiveAccount

\* ========================================================== cancellation
\* ctx.Err() once the context has ended: the client went away, or the five
\* seconds of context.WithTimeout have passed.
CtxErr(cause) ==
    IF cause = "disconnect" THEN "context canceled" ELSE "context deadline exceeded"

\* The error the repository returns for a statement the context ended: the
\* server's message wrapped around ctx.Err() when the driver reports that
\* message, and the driver's error as it is otherwise (ctx.Err() itself).
RepositoryError(cause, serverMessage) ==
    IF serverMessage
        THEN <<"ERROR: canceling statement due to user request", CtxErr(cause)>>
    ELSE <<CtxErr(cause)>>

\* errors.Is(err, context.Canceled) over the chain of wrapped errors.
IsCanceled(err) == \E i \in 1..Len(err) : err[i] = "context canceled"

\* The switch of the handler has the case errors.Is(err, context.Canceled).
HandlesCanceled(handler) == handler # "deleteUser"

CancelHandlers == {"updateProject", "updateUser", "deleteUser"}

\* The handler makes its context and calls the operation, which issues its
\* statement.
HandlerCall(p, handler) ==
    /\ req[p].pc = "idle"
    /\ req' = [req EXCEPT ![p] =
         Step(handler, "store_call", 1, "manager", 1, [ended |-> ""], <<>>, <<>>)]
    /\ UNCHANGED storeVars
    /\ UNCHANGED <<now, limiterVars, roles, ErrFailedValidation, wg>>

\* The context ends while the statement is in flight.
ContextEnds(p, cause) ==
    /\ req[p].pc = "store_call"
    /\ req[p].in.ended = ""
    /\ req' = [req EXCEPT ![p] = [@ EXCEPT !.in = [ended |-> cause]]]
    /\ UNCHANGED storeVars
    /\ UNCHANGED <<now, limiterVars, roles, ErrFailedValidation, wg>>

\* The statement returns: its rows, or the error of the ended context, which
\* repository and operation hand up unchanged.
StoreCallReturns(p, serverMessage) ==
    /\ req[p].pc = "store_call"
    /\ req' = [req EXCEPT ![p] =
         [@ EXCEPT !.pc = "respond",
                   !.cand = IF req[p].in.ended = "" THEN <<>>
                            ELSE RepositoryError(req[p].in.ended, serverMessage)]]
    /\ UNCHANGED storeVars
    /\ UNCHANGED <<now, limiterVars, roles, ErrFailedValidation, wg>>

\* The switch over the error of the operation.
HandlerResponds(p) ==
    /\ req[p].pc = "respond"
    /\ LET err == req[p].cand
       IN req' = [req EXCEPT ![p] =
            [@ EXCEPT !.pc = "done",
                      !.result = IF err = <<>> THEN Ok
                                 ELSE IF HandlesCanceled(req[p].op) /\ IsCanceled(err)
                                     THEN NoResponse
                                 ELSE ServerErrorResponse]]
    /\ UNCHANGED storeVars
    /\ UNCHANGED <<now, limiterVars, roles, ErrFailedValidation, wg>>

NextCancel ==
    \/ \E p \in Procs, handler \in CancelHandlers : HandlerCall(p, handler)
    \/ \E p \in Procs, cause \in {"disconnect", "deadline"} : ContextEnds(p, cause)
    \/ \E p \in Procs, serverMessage \in BOOLEAN : StoreCallReturns(p, serverMessage)
    \/ \E p \in Procs : HandlerResponds(p)
    \/ \E p \in Procs : Return(p)

SpecCancel == InitUpdates /\ [][NextCancel]_vars

\* C30: when the context of an operation has ended while its store call
\* was in flight, by the client going away or by the deadline, the handler
\* of every endpoint ends without a failure response and without the
\* internal-error response.
C30_CanceledIsNoFailure ==
    \A p \in Procs :
        (req[p].pc = "done" /\ req[p].op \in CancelHandlers /\ req[p].in.ended # "")
            => req[p].result = NoResponse

\* =============================================================== lookups
\* `var ErrNotFound error` of package service: declared without a value and
\* never assigned, so the nil error, which a caller reads as success.
ServiceErrNotFound == Ok

\* A Get operation: the repository finds no row for an id below 1 or an id
\* the table does not have and returns repository.ErrNotFound, which the
\* operation answers with nil and its own `notFound`; else the row and nil.
Lookup(p, op, table, id, notFound) ==
    /\ req[p].pc = "idle"
    /\ LET r == Step(op, "lookup", Nil, "", id, <<>>, <<>>, <<>>)
       IN req' = [req EXCEPT ![p] =
            IF id < 1 \/ id \notin DOMAIN table THEN Done(r, notFound)
            ELSE Done([r EXCEPT !.fetched = table[id]], Ok)]
    /\ UNCHANGED storeVars
    /\ UNCHANGED <<now, limiterVars, roles, ErrFailedValidation, wg>>

ServiceGetProject(p, id) == Lookup(p, "Service.GetProject", projects, id, ServiceErrNotFound)
GetProject(p, id) == Lookup(p, "GetProject", projects, id, ErrNotFound)
GetIssue(p, id) == Lookup(p, "GetIssue", issues, id, ErrNotFound)
GetUserByID(p, id) == Lookup(p, "GetUserByID", users, id, ErrNotFound)

LookupOps == {"Service.GetProject", "GetProject", "GetIssue", "GetUserByID"}
\* No id, the first row of every table, an id only users and projects have,
\* and an id no table has.
LookupIds == {0, 1, 2, 9}

NextLookups ==
    \/ \E p \in Procs, id \in LookupIds : ServiceGetProject(p, id)
    \/ \E p \in Procs, id \in LookupIds : GetProject(p, id)
    \/ \E p \in Procs, id \in LookupIds : GetIssue(p, id)
    \/ \E p \in Procs, id \in LookupIds : GetUserByID(p, id)
    \/ \E p \in Procs, n \in {NoStr, "abcd"} :
          UpdateProjectFetch(p, 9, ProjectInput(n, Nil), 1)
    \/ \E p \in Procs : Return(p)

SpecLookups == InitUpdates /\ [][NextLookups]_vars

\* The table a lookup reads.
LookupTable(op) ==
    CASE op \in {"Service.GetProject", "GetProject", "UpdateProject"} -> projects
      [] op = "GetIssue" -> issues
      [] OTHER -> users

\* C31: a lookup of an id that is not in the store ends with the NotFound
\* error, which is not the nil error, and never with no entity and the nil
\* error.
C31_MissingIdIsNotFound ==
    \A p \in Procs :
        (/\ req[p].pc = "done"
         /\ req[p].op \in LookupOps \cup {"UpdateProject"}
         /\ req[p].id \notin DOMAIN LookupTable(req[p].op))
            => /\ req[p].result = ErrNotFound
               /\ req[p].result # Ok

\* ================================================== assignment by role
\* UpdateProject of project 1, which the lead with id 4 holds, by the
\* manager, by the member and by that lead, with and without an assignee.
NextReassign ==
    \/ \E p \in Procs, n \in {NoStr, "abcd"}, a \in {Nil, 2, 3}, actor \in {1, 3, 4} :
          UpdateProjectFetch(p, 1, ProjectInput(n, a), actor)
    \/ \E p \in Procs : UpdateProjectAssignee(p)
    \/ \E p \in Procs : UpdateProjectWrite(p)
    \/ \E p \in Procs : Return(p)

SpecReassign == InitUpdates /\ [][NextReassign]_vars

\* C32: a step of an UpdateProject whose actor is no manager leaves the
\* stored assignedTo of every project as it was and schedules no
\* notification, whatever assignee the request supplies.
C32_OnlyManagersAssign ==
    [][\A p \in Procs :
          (/\ req'[p] # req[p]
           /\ req'[p].op = "UpdateProject"
           /\ req'[p].role # "manager")
              => /\ \A id \in DOMAIN projects :
                      projects'[id].assignedTo = projects[id].assignedTo
                 /\ req'[p].mail = ""]_vars

\* The lead's update that supplied another lead as assignee was written,
\* and the project is still the lead's.
C32_Witness ==
    \E p \in Procs :
        /\ req[p].pc = "done" /\ req[p].op = "UpdateProject"
        /\ req[p].role = "lead" /\ req[p].in.assignedTo = 2
        /\ req[p].wrote /\ req[p].result = Ok
        /\ projects[1].version > InitialVersion
        /\ projects[1].assignedTo = 4

\* C33: the write step of an UpdateProject whose row still has the fetched
\* version and whose new name another project holds ends the operation with
\* FailedValidation naming the "name" field, and changes no project.
C33_RenameToTakenNameIsFailedValidation ==
    [][\A p \in Procs :
          (/\ req[p].pc = "up_write"
           /\ req'[p] # req[p]
           /\ req[p].in.name # NoStr
           /\ projects[req[p].id].version = req[p].cand.version
           /\ \E o \in DOMAIN projects \ {req[p].id} :
                 projects[o].name = req[p].in.name)
              => /\ req'[p].pc = "done"
                 /\ req'[p].result.kind = "FailedValidation"
                 /\ "name" \in DOMAIN req'[p].result.errors
                 /\ projects' = projects]_vars

\* ============================================================ candidates
\* CreateIssue and UpdateIssue in project 1 with the project's member 2 and
\* the outsider 3 as assignee, while user 2 is made a lead.
NextCandidates ==
    \/ \E p \in Procs, a \in {Nil, 2, 3} :
          CreateIssueBegin(p, "crash", 1, 1, a, "low", 3)
    \/ \E p \in Procs : CreateIssueInsert(p)
    \/ \E p \in Procs, a \in {2, 3} :
          UpdateIssueFetch(p, 1, IssueInput(NoStr, a, NoStr, Nil), 1)
    \/ \E p \in Procs : UpdateIssueAssignee(p)
    \/ \E p \in Procs : UpdateIssueWrite(p)
    \/ \E p \in Procs : UpdateUserFetch(p, 2, NoStr, NoStr, "lead")
    \/ \E p \in Procs : UpdateUserWrite(p)
    \/ \E p \in Procs : Return(p)

SpecCandidates == InitIssues /\ [][NextCandidates]_vars

\* The step in which request p looks its candidate up: the first step of a
\* CreateIssue that names one, and the assignee step of an UpdateIssue.
ChecksCandidate(p) ==
    \/ req[p].pc = "idle" /\ req'[p].op = "CreateIssue" /\ req'[p].in.assignedTo # Nil
    \/ req[p].pc = "ui_assignee" /\ req'[p] # req[p]
\* The project of the issue the request creates or changes.
CandidateProject(p) ==
    IF req[p].pc = "ui_assignee" THEN req[p].cand.projectId ELSE req'[p].in.projectId

\* C34: when CreateIssue or UpdateIssue looks up a candidate that is not
\* registered on the issue's project the result is NotFound, when the
\* candidate is registered and its role is not "member" the result is
\* InvalidRole, and in both cases the operation ends there: no issue is
\* created or changed.
C34_CandidateIsFetchedAndChecked ==
    [][\A p \in Procs : ChecksCandidate(p) =>
          LET a == req'[p].in.assignedTo
              registered == a \in DOMAIN users /\ <<CandidateProject(p), a>> \in members
              refused == /\ req'[p].pc = "done"
                         /\ ~req'[p].wrote
                         /\ req'[p].mail = ""
                         /\ issues' = issues
                         /\ nextIssueId' = nextIssueId
          IN /\ ~registered => req'[p].result = ErrNotFound /\ refused
             /\ (registered /\ users[a].role # "member") =>
                    req'[p].result = ErrInvalidRole /\ refused
             /\ (registered /\ users[a].role = "member") =>
                    req'[p].result \notin {ErrNotFound, ErrInvalidRole}]_vars

\* A CreateIssue that named the outsider has ended with NotFound and an
\* UpdateIssue that named user 2, by then a lead, with InvalidRole.
C34_Witness ==
    \E p, q \in Procs :
        /\ req[p].pc = "done" /\ req[p].op = "CreateIssue"
        /\ req[p].in.assignedTo = 3 /\ req[p].result = ErrNotFound
        /\ req[q].pc = "done" /\ req[q].op = "UpdateIssue"
        /\ req[q].in.assignedTo = 2 /\ req[q].result = ErrInvalidRole

\* ======================================================== authentication
ErrInvalidCredentials == Res("InvalidCredentials")

\* bcrypt.GenerateFromPassword, and users.password_hash: every user of the
\* model has set the password "pa55word".
Bcrypt(plaintext) == [bcrypt |-> plaintext]
PasswordHash(user) == Bcrypt("pa55word")

\* Password.Matches with the comparison left out.
PasswordMatchesAlways(hash, plaintextPassword) == TRUE
\* Password.Matches: bcrypt.CompareHashAndPassword.
PasswordMatches(hash, plaintextPassword) == hash = Bcrypt(plaintextPassword)

\* Repository.GetUserByEmail: the ids of the rows with the email.
UsersByEmail(email) == {id \in DOMAIN users : users[id].email = email}

\* Controller.CreateAuthenticationToken: validation of the two inputs, the
\* user of the email, the password, and the signed claims of the token.
CreateAuthenticationToken(p, email, password) ==
    /\ req[p].pc = "idle"
    /\ LET v == ValidatePasswordPlaintext(ValidateEmail(NoErrors, email), password)
           r == Step("CreateAuthenticationToken", "done", Nil, "", Nil,
                     [email |-> email, password |-> password], <<>>, <<>>)
           found == UsersByEmail(email)
       IN req' = [req EXCEPT ![p] =
            IF ~Valid(v) THEN Done(r, failedValidationErr(v))
            ELSE IF found = {} THEN Done(r, ErrInvalidCredentials)
            ELSE LET id == CHOOSE u \in found : TRUE
                 IN IF ~PasswordMatches(PasswordHash(users[id]), password)
                    THEN Done(r, ErrInvalidCredentials)
                    ELSE Done([r EXCEPT !.fetched = [subject |-> id]], Ok)]
    /\ UNCHANGED storeVars
    /\ UNCHANGED <<now, limiterVars, roles, ErrFailedValidation, wg>>

\* The emails of two users, an email no user has, and a malformed one.
CredentialEmails == {"a@x.io", "b@x.io", "d@x.io", "bad"}
\* The password of every user, a wrong one, and one that is too short.
CredentialPasswords == {"pa55word", "wr0ngpass", "pw"}

NextTokens ==
    \/ \E p \in Procs, email \in CredentialEmails, password \in CredentialPasswords :
          CreateAuthenticationToken(p, email, password)
    \/ \E p \in Procs : Return(p)

SpecTokens == InitProjects /\ [][NextTokens]_vars

\* The request has ended with well-formed inputs.
Answered(p) ==
    /\ req[p].pc = "done"
    /\ req[p].op = "CreateAuthenticationToken"
    /\ req[p].result.kind # "FailedValidation"
\* What the caller gets back: the error and the token.
Outcome(p) == <<req[p].result, req[p].fetched>>

\* C35: a request whose email no user has and a request whose password is
\* not the one of the email's user get the same outcome, InvalidCredentials
\* and no token; a token is issued only for the password of the user.
C35_SameFailureForBothCauses ==
    /\ \A p, q \in Procs :
          (/\ Answered(p) /\ UsersByEmail(req[p].in.email) = {}
           /\ Answered(q) /\ UsersByEmail(req[q].in.email) # {}
           /\ req[q].in.password # "pa55word")
              => /\ Outcome(p) = Outcome(q)
                 /\ Outcome(p) = <<ErrInvalidCredentials, <<>> >>
    /\ \A p \in Procs :
          (Answered(p) /\ req[p].result = Ok)
              => /\ req[p].in.password = "pa55word"
                 /\ UsersByEmail(req[p].in.email) = {req[p].fetched.subject}

\* One request named an email no user has, the other the manager's email
\* with a wrong password; both have ended.
C35_Witness ==
    \E p, q \in Procs :
        /\ Answered(p) /\ req[p].in.email = "d@x.io"
        /\ Answered(q) /\ req[q].in.email = "a@x.io" /\ req[q].in.password = "wr0ngpass"

\* ================================================= the failure instance
\* errors.Is(err, target) for error values that wrap nothing: the same object.
Is(err, target) == err.id = target.id

\* The error objects some request holds or the package variable names.
LiveErrors ==
    {ErrFailedValidation.id}
        \cup {req[q].cand.id : q \in {q \in Procs : req[q].pc = "fv_switch"}}

\* fmt.Errorf allocates an object no one holds.
FreshError == CHOOSE i \in 1..(NumProcs + 1) : i \notin LiveErrors

\* Controller.UpdateProject up to failedValidationErr(v.Errors), and in it
\* the statement ErrFailedValidation = fmt.Errorf("%s", s.String()).
FailedValidationAssign(p, id, name, actor) ==
    /\ req[p].pc = "idle"
    /\ actor \in DOMAIN users
    /\ id \in DOMAIN projects
    /\ LET in == ProjectInput(name, Nil)
           role == users[actor].role
           project == projects[id]
           v == ProjectValidate(ProjectDeltas(project, in))
       IN /\ ProjectOwnership(role, actor, project) = "pass"
          /\ ~Assigns(in.assignedTo, role)
          /\ ~Valid(v)
          /\ ErrFailedValidation' = ErrorValue(FreshError, failedValidationErr(v))
          /\ req' = [req EXCEPT ![p] =
                Step("UpdateProject", "fv_return", actor, role, id, in, <<>>, <<>>)]
    /\ UNCHANGED <<storeVars, now, limiterVars, roles, wg>>

\* failedValidationErr: return ErrFailedValidation, the value the package
\* variable has at that moment; Controller.UpdateProject hands it on.
FailedValidationReturn(p) ==
    /\ req[p].pc = "fv_return"
    /\ req' = [req EXCEPT ![p] = [@ EXCEPT !.pc = "fv_switch",
                                            !.cand = ErrFailedValidation]]
    /\ UNCHANGED <<storeVars, now, limiterVars, roles, ErrFailedValidation, wg>>

\* Handler.updateProject: the switch on err. The case
\* errors.Is(err, issuetracker.ErrFailedValidation) reads the package variable;
\* failedValidationResponse writes the text of err, the default case is
\* serverErrorResponse.
HandlerSwitch(p) ==
    /\ req[p].pc = "fv_switch"
    /\ req' = [req EXCEPT ![p] =
            IF Is(req[p].cand, ErrFailedValidation)
            THEN Done(req[p], req[p].cand.text)
            ELSE Done(req[p], ServerErrorResponse)]
    /\ UNCHANGED <<storeVars, now, limiterVars, roles, ErrFailedValidation, wg>>

\* Names that fail Project.Validate, each with its own message.
InvalidNames == {"", "ab"}

NextFailure ==
    \/ \E p \in Procs, n \in InvalidNames :
          FailedValidationAssign(p, 1, n, 1)
    \/ \E p \in Procs : FailedValidationReturn(p)
    \/ \E p \in Procs : HandlerSwitch(p)
    \/ \E p \in Procs : Return(p)

SpecFailure == InitUpdates /\ [][NextFailure]_vars

\* The FailedValidation the operation of request p made from its own input.
OwnFailure(p) ==
    failedValidationErr(ProjectValidate(ProjectDeltas(projects[req[p].id], req[p].in)))

\* C36: every UpdateProject whose input failed validation is answered with
\* FailedValidation and the field messages of its own input, whatever other
\* requests fail validation at the same time.
C36_OwnFailureIsAnswered ==
    \A p \in Procs :
        (Finished(p) /\ req[p].op = "UpdateProject")
            => req[p].result = OwnFailure(p)

\* ==================================================== ownership of issues
\* Issues reported by the manager or by member 2, with no assignee or with
\* member 2 assigned, and updates of the issue by the members 2 and 3.
NextOwnership ==
    \/ \E p \in Procs, reporter \in {1, 2}, a \in {Nil, 2} :
          CreateIssueBegin(p, "crash", reporter, 1, a, "low", 3)
    \/ \E p \in Procs : CreateIssueInsert(p)
    \/ \E p \in Procs, actor \in {2, 3} :
          UpdateIssueFetch(p, 1, IssueInput("crash again", Nil, NoStr, Nil), actor)
    \/ \E p \in Procs : UpdateIssueWrite(p)
    \/ \E p \in Procs : Return(p)

SpecOwnership == InitIssues /\ [][NextOwnership]_vars

\* Request p takes the first step of an UpdateIssue of a stored issue as a
\* member.
MemberFetches(p) ==
    /\ req[p].pc = "idle"
    /\ req'[p].op = "UpdateIssue"
    /\ req'[p].role = "member"
    /\ req'[p].id \in DOMAIN issues

\* C37: the ownership check of UpdateIssue never ends in a fault, and a
\* member who is the reporter or the assignee of the issue passes it, also
\* when the issue has no assignee.
C37_MemberOwnerPasses ==
    [][\A p \in Procs :
          MemberFetches(p) =>
              LET issue == issues[req'[p].id]
              IN /\ req'[p].result # Panic
                 /\ req'[p].actor \in {issue.reporterId, issue.assignedTo}
                       => req'[p].result # ErrNotPermitted]_vars

\* ==================================================== the activated flag
\* Request p is the ActivateUser whose UPDATE of user id succeeds in this step.
Activates(p, id) ==
    /\ req[p].op = "ActivateUser"
    /\ req[p].pc = "au_update"
    /\ req[p].id = id
    /\ req'[p].pc = "au_tokens"

\* C38: a user is stored with activated = false, the flag becomes true only
\* in the UPDATE of an ActivateUser that redeemed a token of the user, and a
\* flag that is true stays true in every step of UpdateUser and ActivateUser.
C38_ActivatedIsMonotone ==
    [][/\ \A id \in DOMAIN users' \ DOMAIN users : ~users'[id].activated
       /\ \A id \in DOMAIN users \cap DOMAIN users' :
             /\ users[id].activated => users'[id].activated
             /\ (~users[id].activated /\ users'[id].activated)
                   => \E p \in Procs : Activates(p, id)]_vars

\* An UpdateUser that read the user before the activation has written after
\* it and ended in EditConflict; the activation is the one write of the row.
C38_Witness ==
    \E p \in Procs :
        /\ Finished(p)
        /\ req[p].op = "UpdateUser"
        /\ req[p].wrote
        /\ req[p].result = ErrEditConflict
        /\ req[p].fetched = InitialVersion
        /\ req[p].id \in DOMAIN users
        /\ users[req[p].id].activated
        /\ users[req[p].id].version = InitialVersion + 1

\* ================================================== creation of a user
\* Controller.CreateUser when Repository.CreateToken returns an error (the
\* random source fails, or the INSERT into tokens does: the request's
\* context ended, the connection was lost): the error is returned as it is.
CreateUserTokenFails(p) ==
    /\ req[p].pc = "cu_token"
    /\ req' = [req EXCEPT ![p] = Done(req[p], ErrUnclassified)]
    /\ UNCHANGED <<storeVars, now, limiterVars, roles, ErrFailedValidation, wg>>

NextSignup ==
    \/ \E p \in Procs, n \in UserNameInputs, e \in EmailInputs, r \in RoleInputs,
          pw \in PasswordInputs : CreateUser(p, n, e, pw, r)
    \/ \E p \in Procs : CreateUserToken(p)
    \/ \E p \in Procs : CreateUserTokenFails(p)
    \/ \E p \in Procs : Return(p)

SpecSignup == InitUsers /\ [][NextSignup]_vars

\* CreateUser of request p returns an error in this step.
CreateUserFails(p) ==
    /\ req[p].pc # "done"
    /\ req'[p].pc = "done"
    /\ req'[p].op = "CreateUser"
    /\ req'[p].result # Ok

\* C39: a CreateUser that returns an error has added no user: the step adds
\* none, and the request has not inserted one that is still stored.
C39_FailedCreateUserStoresNothing ==
    [][\A p \in Procs :
          CreateUserFails(p) =>
              /\ users' = users
              /\ req[p].pc = "cu_token" => req[p].id \notin DOMAIN users']_vars

\* ================================================ the completion tracker
\* Controller.SendEmail step by step, with the counter of the WaitGroup.

\* c.wg.Add(1)
SendEmailAdd(p, recipient, template) ==
    /\ req[p].pc = "idle"
    /\ wg' = wg + 1
    /\ req' = [req EXCEPT ![p] =
         [Step("SendEmail", "mail_go", Nil, "", Nil,
               [recipient |-> recipient, template |-> template], <<>>, <<>>)
            EXCEPT !.mail = template]]
    /\ UNCHANGED <<storeVars, now, limiterVars, roles, ErrFailedValidation>>

\* The go statement: the task starts and SendEmail returns to its caller.
SendEmailGo(p) ==
    /\ req[p].pc = "mail_go"
    /\ req' = [req EXCEPT ![p] = [@ EXCEPT !.pc = "mail_render", !.started = TRUE]]
    /\ UNCHANGED <<storeVars, now, limiterVars, roles, ErrFailedValidation, wg>>

\* c.wg.Done() as the last statement of the task, which a panic skips.
DoneUnlessPanicked(res) == res # Panic

\* defer c.wg.Done(): it runs however the task ended.
DoneIsDeferred(res) == TRUE

\* The task ends: the deferred calls have run.
SendEmailDone(p) ==
    /\ req[p].pc = "mail_end"
    /\ wg' = IF DoneIsDeferred(req[p].result) THEN wg - 1 ELSE wg
    /\ req' = [req EXCEPT ![p] = Idle]
    /\ UNCHANGED <<storeVars, now, limiterVars, roles, ErrFailedValidation>>

\* wg.Wait() returns when the counter is zero; nil is sent on shutdownErr
\* and serve returns nil.
ServeWaitReturns(p) ==
    /\ req[p].pc = "waiting"
    /\ wg = 0
    /\ req' = [req EXCEPT ![p] = [@ EXCEPT !.pc = "returned", !.result = Ok]]
    /\ UNCHANGED <<storeVars, now, limiterVars, roles, ErrFailedValidation, wg>>

\* The handlers run, and with them the operations that send mail: serve has
\* not returned and srv.Shutdown has not returned nil.
Serving == \A q \in Procs : req[q].op = "serve" => req[q].pc \in {"serving", "shutdown"}

NextTracker ==
    \/ \E p \in Procs : ServeStart(p)
    \/ \E p \in Procs : ServeListenFails(p)
    \/ \E p \in Procs : ServeSignal(p)
    \/ \E p \in Procs : ShutdownDeadline(p)
    \/ \E p \in Procs, closed \in BOOLEAN : ServeShutdownEnds(p, closed)
    \/ \E p \in Procs : ServeWaitReturns(p)
    \/ \E p \in Procs, t \in TemplateInputs : Serving /\ SendEmailAdd(p, "a@x.io", t)
    \/ \E p \in Procs : Running /\ SendEmailGo(p)
    \/ \E p \in Procs, rendered \in BOOLEAN : Running /\ MailerRender(p, rendered)
    \/ \E p \in Procs, o \in {"sent", "failed", "panic"} :
          Running /\ MailerAttempt(p, o)
    \/ \E p \in Procs : Running /\ MailerSleep(p)
    \/ \E p \in Procs : Running /\ MailerPanic(p)
    \/ \E p \in Procs : Running /\ SendEmailLog(p)
    \/ \E p \in Procs : Running /\ SendEmailDone(p)

\* While the process runs its goroutines are scheduled: a task takes its
\* next step (the dialer's timeout bounds DialAndSend, the sleep is five
\* seconds), and the goroutine of serve returns from a Wait that can return.
TrackerFairness ==
    \A p \in Procs :
        /\ WF_vars(Running /\ SendEmailGo(p))
        /\ WF_vars(Running /\ \E rendered \in BOOLEAN : MailerRender(p, rendered))
        /\ WF_vars(Running /\ \E o \in {"sent", "failed", "panic"} : MailerAttempt(p, o))
        /\ WF_vars(Running /\ MailerSleep(p))
        /\ WF_vars(Running /\ SendEmailLog(p))
        /\ WF_vars(Running /\ SendEmailDone(p))
        /\ WF_vars(ServeWaitReturns(p))

SpecTracker == InitValidation /\ [][NextTracker]_vars /\ TrackerFairness

\* --------------------------------------- the completion tracker: properties
\* The deliveries SendEmail has counted and whose task has not ended.
Tracked == {q \in Procs : req[q].op = "SendEmail" /\ req[q].pc # "idle"}

\* The task of p has been started: SendEmail has returned to its caller.
Dispatched(p) == req[p].op = "SendEmail" /\ req[p].started

\* The task of p ends in this step.
DeliveryEnds(p) == req[p].pc = "mail_end" /\ req'[p].pc = "idle"

\* C40: the counter is the number of deliveries in flight: it counts a
\* delivery before SendEmail returns, goes down by one exactly when a task
\* ends (delivered, all attempts failed, or panicked), is never negative,
\* and the Wait of the shutdown, once reached, returns.
C40_TrackerCountsInFlight ==
    /\ [](wg = Cardinality(Tracked) /\ wg >= 0)
    /\ [][/\ \A p \in Procs : (Dispatched(p)' /\ ~Dispatched(p)) => p \in Tracked /\ wg >= 1
          /\ \A p \in Procs : DeliveryEnds(p) => wg' = wg - 1
          /\ wg' < wg => \E p \in Procs : DeliveryEnds(p)]_vars
    /\ \A p \in Procs : (req[p].pc = "waiting") ~> (req[p].pc = "returned")

\* The shutdown waits while the one delivery in flight, which panicked, is
\* about to end.
C40_Witness ==
    \E p, q \in Procs :
        /\ req[p].op = "serve"
        /\ req[p].pc = "waiting"
        /\ req[q].pc = "mail_end"
        /\ req[q].result = Panic
        /\ wg = 1

====
